---- MODULE Spec2Model ----
(***************************************************************************)
(* A model of the mdflare agent: the diff codec, the fingerprint, the sync *)
(* engine, the push (SSE) subscriber and the private-vault file service.   *)
(*                                                                         *)
(* Texts are sequences of Unicode scalar values (integers); path strings   *)
(* are sequences of path components, "/" as first component marking an     *)
(* absolute path.  Option<T> is a sequence of length 0 (None) or 1 (Some). *)
(***************************************************************************)
EXTENDS Integers, Sequences, FiniteSets, TLC

None == <<>>
Some(x) == <<x>>
IsSome(o) == Len(o) = 1
Unwrap(o) == o[1]

(***************************************************************************)
(* Bounds of the model.                                                    *)
(***************************************************************************)
\* longest text handed to the diff codec
MaxTextLen == 3

\* '\n', and the letters a and b
NL == 10
ChA == NL + 87
ChB == NL + 88
Alphabet == {NL, ChA, ChB}

RECURSIVE TextsOfLen(_)
TextsOfLen(n) ==
    IF n = 0 THEN {<<>>}
    ELSE {Append(t, c) : t \in TextsOfLen(n - 1), c \in Alphabet}

Texts == UNION {TextsOfLen(n) : n \in 0..MaxTextLen}

(***************************************************************************)
(* Line decompositions.                                                    *)
(***************************************************************************)
\* str::split('\n'): always at least one piece, terminators removed
RECURSIVE SplitNl(_)
SplitNl(s) ==
    IF \A i \in 1..Len(s) : s[i] # NL THEN <<s>>
    ELSE LET k == CHOOSE i \in 1..Len(s) :
                      s[i] = NL /\ \A j \in 1..(i - 1) : s[j] # NL
         IN <<SubSeq(s, 1, k - 1)>> \o SplitNl(SubSeq(s, k + 1, Len(s)))

\* [&str]::join("\n")
RECURSIVE JoinNl(_)
JoinNl(lines) ==
    IF Len(lines) = 0 THEN <<>>
    ELSE IF Len(lines) = 1 THEN lines[1]
    ELSE lines[1] \o <<NL>> \o JoinNl(Tail(lines))

\* similar::TextDiff::from_lines tokenizer: each line keeps its terminator,
\* the empty text has no line, no empty last line after a final newline
RECURSIVE TokenizeLines(_)
TokenizeLines(s) ==
    IF Len(s) = 0 THEN <<>>
    ELSE IF \A i \in 1..Len(s) : s[i] # NL THEN <<s>>
    ELSE LET k == CHOOSE i \in 1..Len(s) :
                      s[i] = NL /\ \A j \in 1..(i - 1) : s[j] # NL
         IN <<SubSeq(s, 1, k)>> \o TokenizeLines(SubSeq(s, k + 1, Len(s)))

\* length of a longest common subsequence of two token sequences
RECURSIVE LcsLen(_, _)
LcsLen(a, b) ==
    IF Len(a) = 0 \/ Len(b) = 0 THEN 0
    ELSE IF a[1] = b[1] THEN 1 + LcsLen(Tail(a), Tail(b))
    ELSE LET x == LcsLen(Tail(a), b)
             y == LcsLen(a, Tail(b))
         IN IF x >= y THEN x ELSE y

\* TextDiff::iter_all_changes: a minimal edit script as a sequence of
\* changes [tag, value], deletions before insertions in a replaced block
RECURSIVE IterAllChanges(_, _)
IterAllChanges(a, b) ==
    IF Len(a) = 0 /\ Len(b) = 0 THEN <<>>
    ELSE IF Len(a) = 0
        THEN <<[tag |-> "Insert", value |-> b[1]]>> \o IterAllChanges(a, Tail(b))
    ELSE IF Len(b) = 0
        THEN <<[tag |-> "Delete", value |-> a[1]]>> \o IterAllChanges(Tail(a), b)
    ELSE IF a[1] = b[1]
        THEN <<[tag |-> "Equal", value |-> a[1]]>> \o IterAllChanges(Tail(a), Tail(b))
    ELSE IF LcsLen(Tail(a), b) >= LcsLen(a, Tail(b))
        THEN <<[tag |-> "Delete", value |-> a[1]]>> \o IterAllChanges(Tail(a), b)
    ELSE <<[tag |-> "Insert", value |-> b[1]]>> \o IterAllChanges(a, Tail(b))

(***************************************************************************)
(* JSON values of a diff script (serde_json::Value).                       *)
(***************************************************************************)
JNum(n) == [t |-> "num", v |-> n]
JStr(s) == [t |-> "str", v |-> s]
JArr(xs) == [t |-> "arr", v |-> xs]
JNull == [t |-> "null", v |-> 0]

\* a u64 of 2^63 or more is written as the negative number its 64 bits are
\* in two's complement: 2^64 - k is -k.  JTop(k) is the JSON number 2^64 - k
\* (serde_json's N::PosInt)
JTop(k) == [t |-> "posint", v |-> 0 - k]
\* a + b exceeds 2^64 - 1
AddOverflows(a, b) ==
    \/ a < 0 /\ b < 0
    \/ (a < 0) # (b < 0) /\ a + b >= 0
\* a > b for two u64
UnsignedGt(a, b) == IF (a < 0) = (b < 0) THEN a > b ELSE a < 0
\* a call that panicked instead of returning
Panicked == <<"panic", "unwind">>
IsPanic(r) == Len(r) = 2

\* Value::as_u64
as_u64(v) ==
    IF v.t = "num" /\ v.v >= 0 THEN Some(v.v)
    ELSE IF v.t = "posint" THEN Some(v.v)
    ELSE None
\* Value::as_array
as_array(v) == IF v.t = "arr" THEN Some(v.v) ELSE None
\* Value::as_str
as_str(v) == IF v.t = "str" THEN Some(v.v) ELSE None
\* Value::get(key) on an object, then the conversion
GetU64(op, key) == IF key \in DOMAIN op THEN as_u64(op[key]) ELSE None
GetArray(op, key) == IF key \in DOMAIN op THEN as_array(op[key]) ELSE None

OpEq(n) == [eq |-> JNum(n)]
OpDel(n) == [del |-> JNum(n)]
OpIns(lines) == [ins |-> JArr([i \in 1..Len(lines) |-> JStr(lines[i])])]

(***************************************************************************)
(* generate_line_diff                                                      *)
(***************************************************************************)
flush_del(st) ==
    IF st.del > 0 THEN [st EXCEPT !.ops = Append(@, OpDel(st.del)), !.del = 0]
    ELSE st
flush_ins(st) ==
    IF Len(st.ins) # 0
    THEN [st EXCEPT !.ops = Append(@, OpIns(st.ins)), !.ins = <<>>]
    ELSE st
\* a variant: the pending count is pushed without the test
flush_eq_unguarded(st) ==
    [st EXCEPT !.ops = Append(@, OpEq(st.eq)), !.eq = 0]
flush_eq(st) ==
    IF st.eq > 0 THEN [st EXCEPT !.ops = Append(@, OpEq(st.eq)), !.eq = 0]
    ELSE st

\* the Insert arm's strip of the newline the tokenizer kept
StripNl(val) ==
    IF Len(val) > 0 /\ val[Len(val)] = NL THEN SubSeq(val, 1, Len(val) - 1)
    ELSE val

\* one iteration of the loop over the changes
DiffStep(st, change) ==
    IF change.tag = "Equal"
    THEN [flush_ins(flush_del(st)) EXCEPT !.eq = @ + 1]
    ELSE IF change.tag = "Delete"
    THEN [flush_ins(flush_eq(st)) EXCEPT !.del = @ + 1]
    ELSE [flush_eq(st) EXCEPT !.ins = Append(@, StripNl(change.value))]

RECURSIVE DiffLoop(_, _)
DiffLoop(st, changes) ==
    IF Len(changes) = 0 THEN st
    ELSE DiffLoop(DiffStep(st, changes[1]), Tail(changes))

generate_line_diff(old_content, new_content) ==
    LET changes == IterAllChanges(TokenizeLines(old_content),
                                  TokenizeLines(new_content))
        st0 == [ops |-> <<>>, eq |-> 0, del |-> 0, ins |-> <<>>]
    IN flush_ins(flush_del(flush_eq(DiffLoop(st0, changes)))).ops

(***************************************************************************)
(* apply_line_diff                                                         *)
(***************************************************************************)
\* the ins arm: every entry must be a string
InsLines(arr) ==
    IF \A i \in 1..Len(arr) : IsSome(as_str(arr[i]))
    THEN Some([i \in 1..Len(arr) |-> arr[i].v])
    ELSE None

\* the loop over the ops; st = [result, pos]; None once an op fails.
\* pos + n is a usize addition: with overflow checks (a debug build) it
\* panics when it exceeds 2^64 - 1, without them (a release build) it wraps;
\* the slice old_lines[pos..end] panics when end < pos
RECURSIVE ApplyLoop(_, _, _, _)
ApplyLoop(old_lines, st, diff, overflow_checks) ==
    IF Len(diff) = 0 THEN Some(st)
    ELSE LET op == diff[1]
             eq == GetU64(op, "eq")
             del == GetU64(op, "del")
             ins == GetArray(op, "ins")
         IN IF IsSome(eq)
            THEN IF AddOverflows(st.pos, Unwrap(eq)) /\ overflow_checks
                 THEN Panicked
                 ELSE IF UnsignedGt(st.pos + Unwrap(eq), Len(old_lines)) THEN None
                 ELSE IF st.pos + Unwrap(eq) < st.pos THEN Panicked
                 ELSE ApplyLoop(old_lines,
                        [result |-> st.result \o
                            SubSeq(old_lines, st.pos + 1, st.pos + Unwrap(eq)),
                         pos |-> st.pos + Unwrap(eq)], Tail(diff), overflow_checks)
            ELSE IF IsSome(del)
            THEN IF AddOverflows(st.pos, Unwrap(del)) /\ overflow_checks
                 THEN Panicked
                 ELSE IF UnsignedGt(st.pos + Unwrap(del), Len(old_lines)) THEN None
                 ELSE ApplyLoop(old_lines,
                        [st EXCEPT !.pos = @ + Unwrap(del)], Tail(diff),
                        overflow_checks)
            ELSE IF IsSome(ins)
            THEN IF IsSome(InsLines(Unwrap(ins)))
                 THEN ApplyLoop(old_lines,
                        [st EXCEPT !.result = @ \o Unwrap(InsLines(Unwrap(ins)))],
                        Tail(diff), overflow_checks)
                 ELSE None
            ELSE None

apply_line_diff(old_content, diff, overflow_checks) ==
    LET old_lines == SplitNl(old_content)
        r == ApplyLoop(old_lines, [result |-> <<>>, pos |-> 0], diff,
                       overflow_checks)
    IN IF IsPanic(r) THEN Panicked
       ELSE IF IsSome(r)
       THEN Some(JoinNl(Unwrap(r).result \o
                 SubSeq(old_lines, Unwrap(r).pos + 1, Len(old_lines))))
       ELSE None

(***************************************************************************)
(* simple_hash and to_base36.  An i32 is kept as its two 16-bit halves     *)
(* [hi, lo] (two's complement), so that wrap-around is computed exactly.   *)
(***************************************************************************)
Half == 2^16

\* hash = ((hash << 5).wrapping_sub(hash)).wrapping_add(c as i32),
\* i.e. hash * 31 + c modulo 2^32
HashStep(h, c) ==
    LET lo == h.lo * 31 + (c % Half)
        hi == h.hi * 31 + (c \div Half) + (lo \div Half)
    IN [hi |-> hi % Half, lo |-> lo % Half]

\* for c in s.chars(): the characters of the first half, then those of the
\* second half from the value the first half left
RECURSIVE HashFold(_, _)
HashFold(h, s) ==
    IF Len(s) = 0 THEN h
    ELSE IF Len(s) = 1 THEN HashStep(h, s[1])
    ELSE CHOOSE r \in {HashFold(m, SubSeq(s, Len(s) \div 2 + 1, Len(s))) :
                          m \in {HashFold(h, SubSeq(s, 1, Len(s) \div 2))}} : TRUE

\* n < 0 for an i32 in halves
IsNegative(n) == n.hi >= Half \div 2

\* a variant: n.wrapping_abs() of the 32-bit value, read as unsigned
AbsHalvesNarrow(n) ==
    IF n.hi = Half \div 2 /\ n.lo = 0 THEN [hi |-> 0, lo |-> 0]
    ELSE IF n.lo = 0 THEN [hi |-> Half - n.hi, lo |-> 0]
    ELSE [hi |-> Half - 1 - n.hi, lo |-> Half - n.lo]

\* (n as i64).abs() as u64 for a negative n: 2^32 - n, again in halves
AbsHalves(n) ==
    IF n.lo = 0 THEN [hi |-> Half - n.hi, lo |-> 0]
    ELSE [hi |-> Half - 1 - n.hi, lo |-> Half - n.lo]

Digits36 == <<"0", "1", "2", "3", "4", "5", "6", "7", "8", "9",
              "a", "b", "c", "d", "e", "f", "g", "h", "i", "j",
              "k", "l", "m", "n", "o", "p", "q", "r", "s", "t",
              "u", "v", "w", "x", "y", "z">>

\* val % 36 and val / 36 on halves
Mod36(val) == ((val.hi % 36) * Half + val.lo) % 36
Div36(val) == [hi |-> val.hi \div 36,
               lo |-> ((val.hi % 36) * Half + val.lo) \div 36]

\* the while loop: digits pushed least significant first
RECURSIVE Base36Buf(_)
Base36Buf(val) ==
    IF val.hi = 0 /\ val.lo = 0 THEN <<>>
    ELSE <<Digits36[Mod36(val) + 1]>> \o Base36Buf(Div36(val))

RECURSIVE Reverse(_)
Reverse(s) == IF Len(s) = 0 THEN <<>> ELSE Append(Reverse(Tail(s)), s[1])

to_base36(n) ==
    IF n.hi = 0 /\ n.lo = 0 THEN <<"0">>
    ELSE LET negative == IsNegative(n)
             val == IF negative THEN AbsHalves(n) ELSE n
             buf == Base36Buf(val)
         IN Reverse(IF negative THEN Append(buf, "-") ELSE buf)

simple_hash(s) == to_base36(HashFold([hi |-> 0, lo |-> 0], s))

(***************************************************************************)
(* Paths.  A path string is the sequence of its components; local_path is  *)
(* the configured root.                                                    *)
(***************************************************************************)
local_path == <<"/", "root">>

IsAbsolute(p) == Len(p) > 0 /\ p[1] = "/"

\* Path::join: an absolute argument replaces the base
Join(base, p) == IF IsAbsolute(p) THEN p ELSE base \o p

\* Path::starts_with: whole components, nothing resolved
PathStartsWith(p, base) ==
    Len(p) >= Len(base) /\ SubSeq(p, 1, Len(base)) = base

\* Path::strip_prefix
strip_prefix(p, base) ==
    IF PathStartsWith(p, base) THEN Some(SubSeq(p, Len(base) + 1, Len(p)))
    ELSE None

\* Path::parent
Parent(p) == IF Len(p) <= 1 THEN None ELSE Some(SubSeq(p, 1, Len(p) - 1))

\* the file the operating system reaches through an absolute path: each ".."
\* leaves the directory reached so far (the root is its own parent)
RECURSIVE ResolveFrom(_, _)
ResolveFrom(acc, p) ==
    IF Len(p) = 0 THEN acc
    ELSE IF p[1] = ".."
        THEN ResolveFrom(IF Len(acc) > 1 THEN SubSeq(acc, 1, Len(acc) - 1) ELSE acc,
                         Tail(p))
    ELSE ResolveFrom(Append(acc, p[1]), Tail(p))

Resolve(p) == ResolveFrom(<<"/">>, Tail(p))

\* the file lies under the root
InsideRoot(p) == PathStartsWith(Resolve(p), local_path)

(***************************************************************************)
(* HashMap operations.                                                     *)
(***************************************************************************)
MapInsert(f, k, v) == [x \in (DOMAIN f) \cup {k} |-> IF x = k THEN v ELSE f[x]]
MapRemove(f, k) == [x \in (DOMAIN f) \ {k} |-> f[x]]
MapGet(f, k) == IF k \in DOMAIN f THEN Some(f[k]) ELSE None
EmptyMap == [x \in {} |-> 0]

(***************************************************************************)
(* The sync engine.  A handler is a function from the engine's fields, the *)
(* disk and the outcomes of the calls it makes (an oracle o: what the      *)
(* remote answers, which filesystem calls fail) to the fields and the disk *)
(* it leaves, with the remote requests (reqs) and the filesystem changes   *)
(* (fsops) it made on the way.                                             *)
(*   local_hashes, local_content_cache, remote_modified: the HashMaps      *)
(*   disk: the files (resolved absolute path -> content)                   *)
(*   touch: who changed each file last ("user", or the engine's "write",   *)
(*          "upload", "move", "read"); kept for the statements only        *)
(***************************************************************************)
Req(verb, path) == [verb |-> verb, path |-> path]
PutReq(path, content, old_hash, diff) ==
    [verb |-> "PUT", path |-> path, content |-> content,
     oldHash |-> old_hash, diff |-> diff]

FsOp(op, path) == [op |-> op, path |-> path, from |-> None]
FsRename(old, new) == [op |-> "rename", path |-> new, from |-> Some(old)]

\* Path::exists
Exists(S, file) == Resolve(file) \in DOMAIN S.disk

\* fs::create_dir_all(parent).ok()
CreateParent(S, file) ==
    IF IsSome(Parent(file))
    THEN [S EXCEPT !.fsops = Append(@, FsOp("create_dir_all", Unwrap(Parent(file))))]
    ELSE S

\* a successful fs::write
WriteFile(S, file, content) ==
    [S EXCEPT !.disk = MapInsert(@, Resolve(file), content),
              !.touch = MapInsert(@, Resolve(file), "write"),
              !.fsops = Append(@, FsOp("write", file))]

\* variants used to test the statements: only the hash is stored; nothing is
CacheInsertHashOnly(S, path, content) ==
    [S EXCEPT !.local_hashes = MapInsert(@, path, simple_hash(content))]

CacheInsertNothing(S, path, content) == S

\* the two cache inserts that follow a write or an upload
CacheInsert(S, path, content) ==
    [S EXCEPT !.local_hashes = MapInsert(@, path, simple_hash(content)),
              !.local_content_cache = MapInsert(@, path, content)]

\* a variant: the content cache keeps its entry
CacheRemoveHashOnly(S, path) ==
    [S EXCEPT !.local_hashes = MapRemove(@, path)]

\* the two cache removes
CacheRemove(S, path) ==
    [S EXCEPT !.local_hashes = MapRemove(@, path),
              !.local_content_cache = MapRemove(@, path)]

\* fetch_from_r2; o.get: the content the GET returned, o.fwrite: fs::write is Ok
fetch_from_r2(S0, path, o) ==
    LET S == [S0 EXCEPT !.reqs = Append(@, Req("GET", path))]
        local_file == Join(local_path, path)
    IN IF IsSome(o.get)
       THEN LET S1 == CreateParent(S, local_file)
            IN IF o.fwrite
               THEN CacheInsert(WriteFile(S1, local_file, Unwrap(o.get)),
                                path, Unwrap(o.get))
               ELSE S1
       ELSE S

\* variant used to test the statements: the stored hash is not compared
HandleSaveAnyHash(S, entry, o) ==
    LET local_file == Join(local_path, entry.path)
        readable == Exists(S, local_file) /\ o.read
        applies == IsSome(entry.old_hash) /\ IsSome(entry.diff) /\ readable
        patched == apply_line_diff(S.disk[Resolve(local_file)], Unwrap(entry.diff),
                                   o.checks)
    IN IF applies /\ IsPanic(patched) THEN [S EXCEPT !.result = "Panic"]
       ELSE IF applies /\ IsSome(patched)
       THEN LET S1 == CreateParent(S, local_file)
            IN IF o.write
               THEN CacheInsert(WriteFile(S1, local_file, Unwrap(patched)),
                                entry.path, Unwrap(patched))
               ELSE fetch_from_r2(S1, entry.path, o)
       ELSE fetch_from_r2(S, entry.path, o)

\* the "save" arm; o.read: read_to_string is Ok, o.write: fs::write is Ok,
\* o.checks: the build has overflow checks.  A panic in apply_line_diff
\* unwinds through the handler: result "Panic", nothing else done
HandleSave(S, entry, o) ==
    LET local_file == Join(local_path, entry.path)
        local_hash == MapGet(S.local_hashes, entry.path)
        readable == Exists(S, local_file) /\ o.read
        old_content == S.disk[Resolve(local_file)]
        applies == /\ IsSome(entry.old_hash) /\ IsSome(entry.diff)
                   /\ IsSome(local_hash)
                   /\ Unwrap(local_hash) = Unwrap(entry.old_hash)
                   /\ readable
        patched == apply_line_diff(old_content, Unwrap(entry.diff), o.checks)
    IN IF applies /\ IsPanic(patched) THEN [S EXCEPT !.result = "Panic"]
       ELSE IF applies /\ IsSome(patched)
       THEN LET S1 == CreateParent(S, local_file)
            IN IF o.write
               THEN CacheInsert(WriteFile(S1, local_file, Unwrap(patched)),
                                entry.path, Unwrap(patched))
               ELSE fetch_from_r2(S1, entry.path, o)
       ELSE fetch_from_r2(S, entry.path, o)

\* a variant: the caches are purged whether or not the file was removed
HandleDeleteUnchecked(S, entry, o) ==
    LET local_file == Join(local_path, entry.path)
    IN IF Exists(S, local_file)
       THEN CacheRemove(
              IF o.remove
              THEN [S EXCEPT !.disk = MapRemove(@, Resolve(local_file)),
                             !.touch = MapRemove(@, Resolve(local_file)),
                             !.fsops = Append(@, FsOp("remove_file", local_file))]
              ELSE S,
              entry.path)
       ELSE S

\* the "delete" arm; o.remove: fs::remove_file is Ok
HandleDelete(S, entry, o) ==
    LET local_file == Join(local_path, entry.path)
    IN IF Exists(S, local_file) /\ o.remove
       THEN CacheRemove(
              [S EXCEPT !.disk = MapRemove(@, Resolve(local_file)),
                        !.touch = MapRemove(@, Resolve(local_file)),
                        !.fsops = Append(@, FsOp("remove_file", local_file))],
              entry.path)
       ELSE S

\* the moves of the two cache entries after a successful fs::rename
RenameCaches(S, old_path, path) ==
    LET h == MapGet(S.local_hashes, old_path)
        c == MapGet(S.local_content_cache, old_path)
    IN [S EXCEPT
          !.local_hashes =
              IF IsSome(h) THEN MapInsert(MapRemove(@, old_path), path, Unwrap(h))
              ELSE @,
          !.local_content_cache =
              IF IsSome(c) THEN MapInsert(MapRemove(@, old_path), path, Unwrap(c))
              ELSE @]

\* the "rename" arm; o.rename: fs::rename is Ok
HandleRename(S, entry, o) ==
    IF IsSome(entry.old_path)
    THEN LET old_path == Unwrap(entry.old_path)
             old_file == Join(local_path, old_path)
             new_file == Join(local_path, entry.path)
         IN IF Exists(S, old_file)
            THEN LET S1 == CreateParent(S, new_file)
                     content == S.disk[Resolve(old_file)]
                 IN IF o.rename
                    THEN RenameCaches(
                           [S1 EXCEPT
                              !.disk = MapInsert(MapRemove(@, Resolve(old_file)),
                                                 Resolve(new_file), content),
                              !.touch = MapInsert(MapRemove(@, Resolve(old_file)),
                                                  Resolve(new_file), "move"),
                              !.fsops = Append(@, FsRename(old_file, new_file))],
                           old_path, entry.path)
                    ELSE S1
            ELSE fetch_from_r2(S, entry.path, o)
    ELSE S

handle_rtdb_event(S, entry, o) ==
    IF entry.action = "save" THEN HandleSave(S, entry, o)
    ELSE IF entry.action = "create" THEN fetch_from_r2(S, entry.path, o)
    ELSE IF entry.action = "delete" THEN HandleDelete(S, entry, o)
    ELSE IF entry.action = "rename" THEN HandleRename(S, entry, o)
    ELSE S

(***************************************************************************)
(* The local scanner (local_fs.rs).  Names are compared through NameRank,  *)
(* the position of the name in the byte order of file names.               *)
(***************************************************************************)
NameRank == [n \in {".h.md", "a.md", "b.md", "d", "e", "x.md"} |->
                CASE n = ".h.md" -> 1 [] n = "a.md" -> 2 [] n = "b.md" -> 3
                  [] n = "d" -> 4 [] n = "e" -> 5 [] n = "x.md" -> 6]

\* name.starts_with('.')
IsHidden(name) == name \in {".h.md"}
\* path.extension().map_or(false, |e| e == "md")
HasMdExtension(name) == name \in {".h.md", "a.md", "b.md", "x.md"}

\* fs::read_dir(dir): the names of the entries of a directory
DirEntries(disk, dir) ==
    {f[Len(dir) + 1] : f \in {g \in DOMAIN disk :
                                 PathStartsWith(g, dir) /\ Len(g) > Len(dir)}}
\* path.is_dir()
IsDir(disk, path) ==
    \E g \in DOMAIN disk : PathStartsWith(g, path) /\ Len(g) > Len(path)

\* a variant of the comparison that looks at the names only
ItemLessByName(a, b) == NameRank[a.name] < NameRank[b.name]

\* the final sort_by: folders before files, then by name
ItemLess(a, b) ==
    IF a.file_type = "folder" /\ b.file_type = "file" THEN TRUE
    ELSE IF a.file_type = "file" /\ b.file_type = "folder" THEN FALSE
    ELSE NameRank[a.name] < NameRank[b.name]

RECURSIVE SortItems(_)
SortItems(items) ==
    IF items = {} THEN <<>>
    ELSE LET first == CHOOSE a \in items : \A b \in items \ {a} : ItemLess(a, b)
         IN <<first>> \o SortItems(items \ {first})

\* has_md_files
RECURSIVE has_md_files(_, _)
has_md_files(disk, dir) ==
    \E n \in DirEntries(disk, dir) :
        \/ Append(dir, n) \in DOMAIN disk /\ HasMdExtension(n)
        \/ IsDir(disk, Append(dir, n)) /\ has_md_files(disk, Append(dir, n))

RECURSIVE scan_dir(_, _, _)
scan_dir(disk, dir, base) ==
    LET visible == {n \in DirEntries(disk, dir) : ~IsHidden(n)}
        Item(n) ==
            LET path == Append(dir, n)
                rel_path == IF IsSome(strip_prefix(path, base))
                            THEN Unwrap(strip_prefix(path, base)) ELSE path
            IN IF IsDir(disk, path)
               THEN [name |-> n, path |-> rel_path, file_type |-> "folder",
                     modified |-> None,
                     children |-> Some(scan_dir(disk, path, base))]
               ELSE [name |-> n, path |-> rel_path, file_type |-> "file",
                     modified |-> None, children |-> None]
        Kept(n) ==
            LET path == Append(dir, n)
            IN IF IsDir(disk, path)
               THEN Len(Unwrap(Item(n).children)) # 0 \/ has_md_files(disk, path)
               ELSE HasMdExtension(n)
    IN SortItems({Item(n) : n \in {k \in visible : Kept(k)}})

scan_local_md_files(disk, root) == scan_dir(disk, root, root)

RECURSIVE flatten_file_paths(_)
flatten_file_paths(items) ==
    IF Len(items) = 0 THEN <<>>
    ELSE LET item == items[1]
         IN (IF item.file_type = "folder"
             THEN IF IsSome(item.children)
                  THEN flatten_file_paths(Unwrap(item.children)) ELSE <<>>
             ELSE <<item>>) \o flatten_file_paths(Tail(items))

\* SyncEngine::flatten_files: the (path, modified) pairs of a remote listing
RECURSIVE flatten_files(_)
flatten_files(items) ==
    IF Len(items) = 0 THEN <<>>
    ELSE LET item == items[1]
         IN (IF item.file_type = "folder"
             THEN IF IsSome(item.children)
                  THEN flatten_files(Unwrap(item.children)) ELSE <<>>
             ELSE IF item.file_type = "file"
             THEN <<[path |-> item.path, modified |-> item.modified]>>
             ELSE <<>>) \o flatten_files(Tail(items))

\* SyncEngine::scan_local_md_files
EngineScan(S) ==
    LET items == flatten_file_paths(scan_local_md_files(S.disk, local_path))
    IN [i \in 1..Len(items) |-> items[i].path]

SeqContains(seq, x) == \E i \in 1..Len(seq) : seq[i] = x

\* a variant that fetches every listed path
ShouldDownloadAlways(S, item) == TRUE

(***************************************************************************)
(* full_sync                                                               *)
(***************************************************************************)
\* should_download of one remote entry
ShouldDownload(S, item) ==
    IF ~Exists(S, Join(local_path, item.path)) THEN TRUE
    ELSE IF IsSome(item.modified)
         THEN MapGet(S.remote_modified, item.path) # item.modified
         ELSE FALSE

\* one iteration of the download loop; o.dl[path].get is the content the
\* GET returned, o.dl[path].write: fs::write is Ok
DownloadOne(S, item, o) ==
    LET path == item.path
        modified == item.modified
        local_file == Join(local_path, path)
        dl == o.dl[path]
    IN IF ShouldDownload(S, item)
       THEN LET S1 == [S EXCEPT !.reqs = Append(@, Req("GET", path))]
            IN IF IsSome(dl.get)
               THEN LET S2 == CreateParent(S1, local_file)
                    IN IF dl.write
                       THEN LET S3 == CacheInsert(
                                        WriteFile(S2, local_file, Unwrap(dl.get)),
                                        path, Unwrap(dl.get))
                            IN [S3 EXCEPT
                                  !.remote_modified =
                                      IF IsSome(modified)
                                      THEN MapInsert(@, path, Unwrap(modified))
                                      ELSE @,
                                  !.downloaded = @ + 1]
                       ELSE S2
               ELSE S1
       ELSE S

RECURSIVE DownloadLoop(_, _, _)
DownloadLoop(S, remote_items, o) ==
    IF Len(remote_items) = 0 THEN S
    ELSE DownloadLoop(DownloadOne(S, remote_items[1], o), Tail(remote_items), o)

\* a variant of the listing test that takes no path as listed
NotListedNever(remote_paths, path) == TRUE
\* !remote_paths.contains(path)
NotListed(remote_paths, path) == ~SeqContains(remote_paths, path)

\* a variant of the upload that stores the hash and the content before the
\* put, whatever its outcome
UploadOneCacheFirst(S, path, remote_paths, o) ==
    IF ~SeqContains(remote_paths, path)
    THEN LET local_file == Join(local_path, path)
             up == o.up[path]
         IN IF Exists(S, local_file) /\ up.read
            THEN LET content == S.disk[Resolve(local_file)]
                     S1 == [CacheInsert(S, path, content) EXCEPT
                              !.reqs = Append(@, PutReq(path, content, None, None))]
                 IN IF up.put
                    THEN [S1 EXCEPT
                            !.touch = MapInsert(@, Resolve(local_file), "upload"),
                            !.uploaded = @ + 1]
                    ELSE S1
            ELSE S
    ELSE S

\* a variant that mirrors the listing: a scanned path the listing lacks is
\* removed from the disk instead of uploaded
UploadOneMirror(S, path, remote_paths, o) ==
    IF ~SeqContains(remote_paths, path)
    THEN LET local_file == Join(local_path, path)
         IN [S EXCEPT !.disk = MapRemove(@, Resolve(local_file)),
                      !.touch = MapRemove(@, Resolve(local_file)),
                      !.fsops = Append(@, FsOp("remove_file", local_file))]
    ELSE S

\* one iteration of the upload loop; up = o.up[path]: up.read:
\* read_to_string is Ok, up.put: put_file is Ok
UploadOne(S, path, remote_paths, o) ==
    IF NotListed(remote_paths, path)
    THEN LET local_file == Join(local_path, path)
             up == o.up[path]
         IN IF Exists(S, local_file) /\ up.read
            THEN LET content == S.disk[Resolve(local_file)]
                     S1 == [S EXCEPT
                              !.reqs = Append(@, PutReq(path, content, None, None))]
                 IN IF up.put
                    THEN [CacheInsert(S1, path, content) EXCEPT
                            !.touch = MapInsert(@, Resolve(local_file), "upload"),
                            !.uploaded = @ + 1]
                    ELSE S1
            ELSE S
    ELSE S

RECURSIVE UploadLoop(_, _, _, _)
UploadLoop(S, local_paths, remote_paths, o) ==
    IF Len(local_paths) = 0 THEN S
    ELSE UploadLoop(UploadOne(S, local_paths[1], remote_paths, o),
                    Tail(local_paths), remote_paths, o)

\* a variant that sends the heartbeat also when the listing failed
full_sync_heartbeat_always(S0, o) ==
    LET S == [S0 EXCEPT !.reqs = Append(@, Req("LIST", <<>>))]
    IN IF IsSome(o.list)
       THEN LET remote_items == flatten_files(Unwrap(o.list))
                remote_paths == [i \in 1..Len(remote_items) |-> remote_items[i].path]
                local_paths == EngineScan(S)
                S1 == DownloadLoop(S, remote_items, o)
                S2 == UploadLoop(S1, local_paths, remote_paths, o)
            IN [S2 EXCEPT !.reqs = Append(@, Req("HEARTBEAT", <<>>)),
                          !.result = "Ok"]
       ELSE [S EXCEPT !.reqs = Append(@, Req("HEARTBEAT", <<>>)),
                      !.result = "Err"]

\* full_sync; o.list: the listing list_files returned (None: it failed)
full_sync(S0, o) ==
    LET S == [S0 EXCEPT !.reqs = Append(@, Req("LIST", <<>>))]
    IN IF IsSome(o.list)
       THEN LET remote_items == flatten_files(Unwrap(o.list))
                remote_paths == [i \in 1..Len(remote_items) |-> remote_items[i].path]
                local_paths == EngineScan(S)
                S1 == DownloadLoop(S, remote_items, o)
                S2 == UploadLoop(S1, local_paths, remote_paths, o)
            IN [S2 EXCEPT !.reqs = Append(@, Req("HEARTBEAT", <<>>)),
                          !.result = "Ok"]
       ELSE [S EXCEPT !.result = "Err"]

(***************************************************************************)
(* handle_local_change and handle_local_folder_delete                      *)
(***************************************************************************)
\* the file was read by the engine and left as it is
TouchRead(S, file) ==
    IF S.touch[Resolve(file)] = "user"
    THEN [S EXCEPT !.touch = MapInsert(@, Resolve(file), "read")]
    ELSE S

\* the serialized diff is at most 10240 bytes long
DiffLimit == 10240
\* diff_val.to_string().len(): the bytes of the serialized script, e.g.
\* [{"eq":1},{"del":2},{"ins":["a","b"]}]
RECURSIVE DecimalLen(_)
DecimalLen(n) == IF n < 10 THEN 1 ELSE 1 + DecimalLen(n \div 10)
RECURSIVE LinesStrLen(_)
LinesStrLen(lines) ==
    IF Len(lines) = 0 THEN 0
    ELSE Len(lines[1].v) + 2 + (IF Len(lines) > 1 THEN 1 ELSE 0)
         + LinesStrLen(Tail(lines))
OpStrLen(op) ==
    IF "ins" \in DOMAIN op THEN 10 + LinesStrLen(op.ins.v)
    ELSE IF "eq" \in DOMAIN op THEN 7 + DecimalLen(op.eq.v)
    ELSE 8 + DecimalLen(op.del.v)
RECURSIVE OpsStrLen(_)
OpsStrLen(ops) ==
    IF Len(ops) = 0 THEN 0
    ELSE OpStrLen(ops[1]) + (IF Len(ops) > 1 THEN 1 ELSE 0) + OpsStrLen(Tail(ops))
DiffStrLen(ops) == 2 + OpsStrLen(ops)

\* a variant: the limit itself is already too long
WithinLimitStrict(diff_val) == DiffStrLen(diff_val) < DiffLimit
\* diff_val.to_string().len() <= 10240
WithinLimit(diff_val) == DiffStrLen(diff_val) <= DiffLimit

\* o.read: read_to_string is Ok, o.put: put_file_with_diff is Ok,
\* o.del: delete_file is Ok
handle_local_change(S, full_path, o) ==
    LET rel == strip_prefix(full_path, local_path)
    IN IF IsSome(rel)
       THEN LET rel_str == Unwrap(rel)
            IN IF Exists(S, full_path)
               THEN IF o.read
                    THEN LET content == S.disk[Resolve(full_path)]
                             new_hash == simple_hash(content)
                             old_hash == MapGet(S.local_hashes, rel_str)
                         IN IF old_hash # Some(new_hash)
                            THEN LET prior == MapGet(S.local_content_cache, rel_str)
                                     diff_val == generate_line_diff(
                                         IF IsSome(prior) THEN Unwrap(prior) ELSE <<>>,
                                         content)
                                     diff == IF IsSome(old_hash)
                                             THEN IF WithinLimit(diff_val)
                                                  THEN Some(diff_val) ELSE None
                                             ELSE None
                                     S1 == CacheInsert(S, rel_str, content)
                                     S2 == [S1 EXCEPT !.reqs = Append(@,
                                              PutReq(rel_str, content, old_hash, diff))]
                                 IN [S2 EXCEPT !.touch = MapInsert(@, Resolve(full_path),
                                        IF o.put THEN "upload" ELSE "read")]
                            ELSE TouchRead(S, full_path)
                    ELSE S
               ELSE LET S1 == [S EXCEPT !.reqs = Append(@, Req("DELETE", rel_str))]
                    IN IF o.del THEN CacheRemove(S1, rel_str) ELSE S1
       ELSE S

\* the characters of a path string: the names of its components with '/'
\* between them (the folder name "d2" is the name "d" followed by '2')
NameChars(name) == IF name = "d2" THEN <<"d", "2">> ELSE <<name>>
RECURSIVE PathChars(_)
PathChars(p) ==
    IF Len(p) = 0 THEN <<>>
    ELSE IF p[1] = "/" THEN <<"/">> \o PathChars(Tail(p))
    ELSE IF Len(p) = 1 THEN NameChars(p[1])
    ELSE NameChars(p[1]) \o <<"/">> \o PathChars(Tail(p))

\* str::starts_with
StrStartsWith(str, pre) ==
    Len(str) >= Len(pre) /\ SubSeq(str, 1, Len(pre)) = pre

\* a variant that uses the prefix as it is
PrefixAsIs(prefix) == prefix
\* prefix_with_slash: prefix + "/" unless prefix already ends with '/'
PrefixWithSlash(prefix) ==
    IF Len(prefix) > 0 /\ prefix[Len(prefix)] = "/" THEN prefix
    ELSE prefix \o <<"/">>

\* k.starts_with(&prefix_with_slash)
StartsWithPrefixSlash(k, prefix) ==
    StrStartsWith(PathChars(k), PrefixWithSlash(PathChars(prefix)))

\* the loop over to_delete, in the order the HashMap yields its keys;
\* o.del: the paths whose delete_file is Ok
RECURSIVE FolderDeleteLoop(_, _, _)
FolderDeleteLoop(S, to_delete, o) ==
    IF Len(to_delete) = 0 THEN S
    ELSE LET path == to_delete[1]
             S1 == [S EXCEPT !.reqs = Append(@, Req("DELETE", path))]
         IN FolderDeleteLoop(IF path \in o.del THEN CacheRemove(S1, path) ELSE S1,
                             Tail(to_delete), o)

FolderKeys(S, folder_path) ==
    LET rel == strip_prefix(folder_path, local_path)
    IN IF IsSome(rel)
       THEN {k \in DOMAIN S.local_hashes : StartsWithPrefixSlash(k, Unwrap(rel))}
       ELSE {}

\* o.order: the keys of to_delete in iteration order
handle_local_folder_delete(S, folder_path, o) ==
    IF IsSome(strip_prefix(folder_path, local_path))
    THEN FolderDeleteLoop(S, o.order, o)
    ELSE S

(***************************************************************************)
(* The engine's state and the inputs of the model.                         *)
(***************************************************************************)
VARIABLES local_hashes, local_content_cache, remote_modified, disk, touch,
          reqs, fsops, last, calls, userOps

engVars == <<local_hashes, local_content_cache, remote_modified, disk, touch,
             reqs, fsops, last, calls, userOps>>

\* the push subscriber: its position, the locals of its read loop, and the
\* completed events of the current connection (s_hist, for the statements)
VARIABLES s_pc, event_type, data_buf, first_put, s_hist, s_conns, s_lines

sseVars == <<s_pc, event_type, data_buf, first_put, s_hist, s_conns, s_lines>>

\* the private vault: the files, the last request and its response
\* (v_variant: which of the two server sources is running; v_fsops: the
\* filesystem calls the last request made)
VARIABLES v_variant, v_disk, v_req, v_resp, v_fsops, v_n

vaultVars == <<v_variant, v_disk, v_req, v_resp, v_fsops, v_n>>

\* the diff codec on its own: the two texts, the script, the result
VARIABLES d_pc, d_old, d_new, d_script, d_applied

diffVars == <<d_pc, d_old, d_new, d_script, d_applied>>

\* the threads of start_cloud_sync and the engine mutex: each thread's
\* position, the thread holding the mutex, the cache accesses made so far
\* (l_log, for the statements) and the handler invocations started
VARIABLES l_th, l_mutex, l_log, l_runs

lockVars == <<l_th, l_mutex, l_log, l_runs>>

\* the server's store (path -> content and modified stamp), its clock, and
\* the paths whose last upload by handle_local_change failed (r_failed, for
\* the statements)
VARIABLES remote, r_clock, r_failed

remoteVars == <<remote, r_clock, r_failed>>

\* simple_hash on its own: the text and the string returned
VARIABLES h_pc, h_text, h_out

hashVars == <<h_pc, h_text, h_out>>

moreVars == <<lockVars, remoteVars, hashVars>>

vars == <<engVars, sseVars, vaultVars, diffVars, moreVars>>

\* most handler calls of the engine in one run
MaxCalls == 2
\* most changes the user makes to the files in one run
MaxUserOps == 1
\* most entries of one remote listing
MaxListing == 1

\* file contents: "a\nb" and "b\nb"
Contents == {<<ChA, NL, ChB>>, <<ChB, NL, ChB>>}
\* remote modification stamps
ModifiedStamps == {"t1"}

\* relative paths of Markdown files under the root
InPaths == {<<"a.md">>, <<"d", "b.md">>}
\* path strings that leave the root: "../x.md" and "/x.md"
EscapingPaths == {<<"..", "x.md">>, <<"/", "x.md">>}
\* the path strings the remote can supply
RemotePaths == InPaths \cup EscapingPaths
\* folders the watcher can report
Folders == {<<"d">>}

\* diff scripts a save event can carry
Scripts == { <<OpDel(1), OpIns(<<<<ChB>>>>), OpEq(1)>>,
             <<OpEq(3)>>,
             <<[ins |-> JArr(<<JNum(1)>>)]>> }

Entry(path, action, old_hash, diff, old_path) ==
    [path |-> path, action |-> action, old_hash |-> old_hash, diff |-> diff,
     old_path |-> old_path]

OptionOf(set) == {None} \cup {Some(x) : x \in set}

\* the paths of push events: "/x.md" comes with create events only
PushPaths == InPaths \cup {<<"..", "x.md">>}
SaveEntries ==
    {Entry(p, "save", h, d, None) :
        p \in PushPaths,
        h \in OptionOf({simple_hash(<<ChA, NL, ChB>>)}),
        d \in OptionOf(Scripts)}
PushEntries ==
    SaveEntries
    \cup {Entry(p, "create", None, None, None) : p \in RemotePaths}
    \cup {Entry(p, "delete", None, None, None) : p \in PushPaths}
    \cup {Entry(<<"a.md">>, "touch", None, None, None)}
    \cup {Entry(p, "rename", None, None, q) :
            p \in PushPaths, q \in OptionOf(PushPaths)}

\* the outcomes of the calls one push event leads to in state S: which
\* content the GET returns (None: it fails), which filesystem calls are Ok.
\* Only the calls the event can reach are varied.  checks says whether the
\* build has overflow checks: the builds differ only on a count near 2^64,
\* which no script of Scripts has.
FetchOutcomes ==
    {[get |-> None, fwrite |-> FALSE],
     [get |-> Some(<<ChA, NL, ChB>>), fwrite |-> FALSE]}
    \cup {[get |-> Some(c), fwrite |-> TRUE] : c \in Contents}
NoFetch == [get |-> None, fwrite |-> FALSE]
PushOracle(f, read, write, remove, rename) ==
    [get |-> f.get, fwrite |-> f.fwrite, read |-> read, write |-> write,
     remove |-> remove, rename |-> rename, checks |-> FALSE]
PushOracles(S, entry) ==
    IF entry.action = "save"
    THEN IF /\ IsSome(entry.old_hash) /\ IsSome(entry.diff)
            /\ Exists(S, Join(local_path, entry.path))
         THEN {PushOracle(f, rw[1], rw[2], FALSE, FALSE) :
                 f \in FetchOutcomes,
                 rw \in {<<FALSE, FALSE>>, <<TRUE, FALSE>>, <<TRUE, TRUE>>}}
         ELSE {PushOracle(f, FALSE, FALSE, FALSE, FALSE) : f \in FetchOutcomes}
    ELSE IF entry.action = "create"
    THEN {PushOracle(f, FALSE, FALSE, FALSE, FALSE) : f \in FetchOutcomes}
    ELSE IF entry.action = "delete"
    THEN IF Exists(S, Join(local_path, entry.path))
         THEN {PushOracle(NoFetch, FALSE, FALSE, b, FALSE) : b \in BOOLEAN}
         ELSE {PushOracle(NoFetch, FALSE, FALSE, FALSE, FALSE)}
    ELSE IF entry.action = "rename" /\ IsSome(entry.old_path)
    THEN IF Exists(S, Join(local_path, Unwrap(entry.old_path)))
         THEN {PushOracle(NoFetch, FALSE, FALSE, FALSE, b) : b \in BOOLEAN}
         ELSE {PushOracle(f, FALSE, FALSE, FALSE, FALSE) : f \in FetchOutcomes}
    ELSE {PushOracle(NoFetch, FALSE, FALSE, FALSE, FALSE)}

\* a remote listing: the files of `paths` with the stamps `stamp`, the
\* files of folder d inside a folder item
FileItemOf(path, modified) ==
    [name |-> path[Len(path)], path |-> path, file_type |-> "file",
     modified |-> modified, children |-> None]
ListingOf(paths, stamp) ==
    LET top == {p \in paths : Len(p) # 2 \/ p[1] # "d"}
        sub == {p \in paths : Len(p) = 2 /\ p[1] = "d"}
        folder == IF sub = {} THEN {}
                  ELSE {[name |-> "d", path |-> <<"d">>, file_type |-> "folder",
                         modified |-> None,
                         children |-> Some(SortItems(
                             {FileItemOf(p, stamp[p]) : p \in sub}))]}
    IN SortItems(folder \cup {FileItemOf(p, stamp[p]) : p \in top})
ListedPaths == InPaths \cup {<<"..", "x.md">>}
Listings ==
    UNION {{ListingOf(ps, st) : st \in [ps -> OptionOf(ModifiedStamps)]} :
             ps \in {x \in SUBSET ListedPaths : Cardinality(x) <= MaxListing}}

DownloadOutcomes ==
    {[get |-> None, write |-> FALSE],
     [get |-> Some(<<ChA, NL, ChB>>), write |-> FALSE]}
    \cup {[get |-> Some(c), write |-> TRUE] : c \in Contents}
UploadOutcomes ==
    {[read |-> FALSE, put |-> FALSE], [read |-> TRUE, put |-> FALSE],
     [read |-> TRUE, put |-> TRUE]}

(***************************************************************************)
(* The engine's operations as actions.                                     *)
(***************************************************************************)
Cur == [local_hashes |-> local_hashes,
        local_content_cache |-> local_content_cache,
        remote_modified |-> remote_modified,
        disk |-> disk, touch |-> touch,
        reqs |-> <<>>, fsops |-> <<>>, engine_calls |-> <<>>,
        downloaded |-> 0, uploaded |-> 0, result |-> "Ok"]

\* the engine and the disk as a handler left them
Leave(S0, op, arg) ==
    \E S \in {S0} :
        /\ local_hashes' = S.local_hashes
        /\ local_content_cache' = S.local_content_cache
        /\ remote_modified' = S.remote_modified
        /\ disk' = S.disk
        /\ touch' = S.touch
        /\ reqs' = S.reqs
        /\ fsops' = S.fsops
        /\ last' = [op |-> op, arg |-> arg,
                    ret |-> <<S.result, S.downloaded, S.uploaded>>]

\* one handler call made by a thread of start_cloud_sync
Commit(S, op, arg) ==
    /\ Leave(S, op, arg)
    /\ calls' = calls + 1
    /\ UNCHANGED <<userOps, sseVars, vaultVars, diffVars, moreVars>>

\* SyncEngine::new, on a root with no file yet
EngInit ==
    /\ local_hashes = EmptyMap
    /\ local_content_cache = EmptyMap
    /\ remote_modified = EmptyMap
    /\ disk = EmptyMap
    /\ touch = EmptyMap
    /\ reqs = <<>>
    /\ fsops = <<>>
    /\ last = [op |-> "new", arg |-> <<>>, ret |-> <<"Ok", 0, 0>>]
    /\ calls = 0
    /\ userOps = 0

\* the user (or any other program) writes a file under the root
UserWrite ==
    \E p \in InPaths, c \in Contents :
        /\ userOps < MaxUserOps
        /\ userOps' = userOps + 1
        /\ UNCHANGED <<calls, sseVars, vaultVars, diffVars, moreVars>>
        /\ MapGet(disk, Join(local_path, p)) # Some(c)
        /\ disk' = MapInsert(disk, Join(local_path, p), c)
        /\ touch' = MapInsert(touch, Join(local_path, p), "user")
        /\ reqs' = <<>> /\ fsops' = <<>>
        /\ last' = [op |-> "user_write", arg |-> p, ret |-> <<"Ok", 0, 0>>]
        /\ UNCHANGED <<local_hashes, local_content_cache, remote_modified>>

\* the user removes a file under the root
UserRemove ==
    \E p \in InPaths :
        /\ userOps < MaxUserOps
        /\ userOps' = userOps + 1
        /\ UNCHANGED <<calls, sseVars, vaultVars, diffVars, moreVars>>
        /\ Join(local_path, p) \in DOMAIN disk
        /\ disk' = MapRemove(disk, Join(local_path, p))
        /\ touch' = MapRemove(touch, Join(local_path, p))
        /\ reqs' = <<>> /\ fsops' = <<>>
        /\ last' = [op |-> "user_remove", arg |-> p, ret |-> <<"Ok", 0, 0>>]
        /\ UNCHANGED <<local_hashes, local_content_cache, remote_modified>>

\* the timer's and the startup's eng.full_sync()
FullSyncFailed ==
    /\ calls < MaxCalls
    /\ Commit(full_sync(Cur, [list |-> None]), "full_sync", None)

FullSync ==
    /\ calls < MaxCalls
    /\ \E listing \in Listings :
         LET items == flatten_files(listing)
             listed == {items[i].path : i \in 1..Len(items)}
             scanned == EngineScan(Cur)
             local == {scanned[i] : i \in 1..Len(scanned)}
             fetched == {items[i].path : i \in {j \in 1..Len(items) :
                            ShouldDownload(Cur, items[j])}}
         IN \E dl \in [fetched -> DownloadOutcomes],
               up \in [local -> UploadOutcomes] :
                Commit(full_sync(Cur, [list |-> Some(listing), dl |-> dl, up |-> up]),
                       "full_sync",
                       Some([listing |-> listing, dl |-> dl, up |-> up]))

\* the watcher's event for a path with extension md
HandleLocalChange ==
    /\ calls < MaxCalls
    /\ \E p \in InPaths :
         \E o \in IF Join(local_path, p) \in DOMAIN disk
                   THEN {[read |-> FALSE, put |-> FALSE, del |-> FALSE],
                         [read |-> TRUE, put |-> FALSE, del |-> FALSE],
                         [read |-> TRUE, put |-> TRUE, del |-> FALSE]}
                   ELSE [read : {FALSE}, put : {FALSE}, del : BOOLEAN] :
        Commit(handle_local_change(Cur, Join(local_path, p), o),
               "handle_local_change", p)

\* the watcher's event for another path that no longer exists
HandleLocalFolderDelete ==
    \E f \in Folders :
        /\ calls < MaxCalls
        /\ ~IsDir(disk, Join(local_path, f))
        /\ LET keys == FolderKeys(Cur, Join(local_path, f))
           IN \E order \in {s \in [1..Cardinality(keys) -> keys] :
                               \A i, j \in DOMAIN s : i # j => s[i] # s[j]},
                 del \in SUBSET keys :
                    Commit(handle_local_folder_delete(Cur, Join(local_path, f),
                               [order |-> order, del |-> del]),
                           "handle_local_folder_delete", f)

\* a decoded push event handed to the engine
HandleRtdbEvent ==
    /\ calls < MaxCalls
    /\ \E entry \in PushEntries :
         \E o \in PushOracles(Cur, entry) :
            Commit(handle_rtdb_event(Cur, entry, o), "handle_rtdb_event",
                   [entry |-> entry, o |-> o])

(***************************************************************************)
(* The push subscriber (start_rtdb_subscription, handle_sse_data).         *)
(* A JSON object is the sequence of its <<key, value>> pairs in iteration  *)
(* order.  A safeKey is a sequence of tokens, "_slash_" and "_dot_" among  *)
(* them; NameOfTokens gives the component a run of tokens spells.          *)
(***************************************************************************)
JObj(pairs) == [t |-> "obj", v |-> pairs]

\* Value::get(name) on an object
HasField(obj, name) == \E i \in 1..Len(obj.v) : obj.v[i][1] = name
Field(obj, name) ==
    obj.v[CHOOSE i \in 1..Len(obj.v) : obj.v[i][1] = name][2]

\* an Option<String> or Option<Vec<Value>> field: absent or null is None,
\* a value of the type is Some, any other value fails the decoding
OptFieldOk(obj, name, type) ==
    ~HasField(obj, name) \/ Field(obj, name).t \in {"null", type}
OptField(obj, name) ==
    IF HasField(obj, name) /\ Field(obj, name).t # "null"
    THEN Some(Field(obj, name).v) ELSE None

\* a variant: a missing action decodes as the empty string
DecodeEntryLax(val) ==
    IF val.t = "obj" /\ HasField(val, "path") /\ Field(val, "path").t = "str"
    THEN Some(Entry(Field(val, "path").v,
                    IF HasField(val, "action") /\ Field(val, "action").t = "str"
                    THEN Field(val, "action").v ELSE "",
                    OptField(val, "oldHash"), OptField(val, "diff"),
                    OptField(val, "oldPath")))
    ELSE None

\* serde_json::from_value::<RtdbFileEntry>
DecodeEntry(val) ==
    IF /\ val.t = "obj"
       /\ HasField(val, "path") /\ Field(val, "path").t = "str"
       /\ HasField(val, "action") /\ Field(val, "action").t = "str"
       /\ OptFieldOk(val, "hash", "str")
       /\ OptFieldOk(val, "oldHash", "str")
       /\ OptFieldOk(val, "diff", "arr")
       /\ OptFieldOk(val, "oldPath", "str")
       /\ OptFieldOk(val, "modified", "num")
       /\ OptFieldOk(val, "size", "num")
    THEN Some(Entry(Field(val, "path").v, Field(val, "action").v,
                    OptField(val, "oldHash"), OptField(val, "diff"),
                    OptField(val, "oldPath")))
    ELSE None

\* str::replace("_slash_", "/").replace("_dot_", ".")
ReplaceTokens(key) ==
    [i \in 1..Len(key) |->
        IF key[i] = "_slash_" THEN "/" ELSE IF key[i] = "_dot_" THEN "." ELSE key[i]]

\* str::trim_start_matches('/')
RECURSIVE TrimStartSlashes(_)
TrimStartSlashes(key) ==
    IF Len(key) > 0 /\ key[1] = "/" THEN TrimStartSlashes(Tail(key)) ELSE key

NameOfTokens(run) ==
    CASE run = <<"a", ".", "md">> -> "a.md"
      [] run = <<"b", ".", "md">> -> "b.md"
      [] run = <<"d">> -> "d"
      [] OTHER -> "?"

\* the path string a token sequence spells, as its components
RECURSIVE ComponentsOf(_, _)
ComponentsOf(run, rest) ==
    IF Len(rest) = 0
    THEN IF Len(run) = 0 THEN <<>> ELSE <<NameOfTokens(run)>>
    ELSE IF rest[1] = "/"
    THEN (IF Len(run) = 0 THEN <<>> ELSE <<NameOfTokens(run)>>)
         \o ComponentsOf(<<>>, Tail(rest))
    ELSE ComponentsOf(Append(run, rest[1]), Tail(rest))

\* a variant: only the first entry of a root update is looked at
RootLoopFirstOnly(S, pairs, os) ==
    IF Len(pairs) = 0 THEN S
    ELSE LET entry == DecodeEntry(pairs[1][2])
         IN IF IsSome(entry)
            THEN [handle_rtdb_event(S, Unwrap(entry), os[1]) EXCEPT
                    !.engine_calls = Append(@, Unwrap(entry))]
            ELSE S

\* the loop over the entries of a root update; os: the oracle of each
\* entry's handle_rtdb_event
RECURSIVE RootLoop(_, _, _)
RootLoop(S, pairs, os) ==
    IF Len(pairs) = 0 \/ S.result = "Panic" THEN S
    ELSE LET entry == DecodeEntry(pairs[1][2])
         IN RootLoop(IF IsSome(entry)
                     THEN [handle_rtdb_event(S, Unwrap(entry), os[1]) EXCEPT
                             !.engine_calls = Append(@, Unwrap(entry))]
                     ELSE S,
                     Tail(pairs), Tail(os))

\* handle_sse_data; data: the payload text as [json: it parses; val: the
\* value it parses to]
handle_sse_data(S, data, os) ==
    IF ~data.json THEN S
    ELSE LET val == data.val
             path == IF val.t = "obj" /\ HasField(val, "path")
                        /\ Field(val, "path").t = "str"
                     THEN Field(val, "path").v ELSE <<>>
         IN IF ~(val.t = "obj" /\ HasField(val, "data")) THEN S
            ELSE LET data_val == Field(val, "data")
                 IN IF path = <<"/">>
                    THEN IF data_val.t = "obj" THEN RootLoop(S, data_val.v, os)
                         ELSE S
                    ELSE IF data_val.t = "null"
                    THEN LET safe_key == TrimStartSlashes(path)
                             file_path == ComponentsOf(<<>>, ReplaceTokens(safe_key))
                             entry == Entry(file_path, "delete", None, None, None)
                         IN [handle_rtdb_event(S, entry, os[1]) EXCEPT
                               !.engine_calls = Append(@, entry)]
                    ELSE IF IsSome(DecodeEntry(data_val))
                    THEN [handle_rtdb_event(S, Unwrap(DecodeEntry(data_val)), os[1])
                          EXCEPT !.engine_calls =
                                    Append(@, Unwrap(DecodeEntry(data_val)))]
                    ELSE S

(***************************************************************************)
(* The subscriber thread of start_rtdb_subscription.                       *)
(***************************************************************************)
\* most lines read on one connection
MaxLines == 6
\* connections counted (the count stops there, the thread does not)
MaxConns == 2

EmptyText == [json |-> FALSE, val |-> JNull]
Json(val) == [json |-> TRUE, val |-> val]

RawEntry(path, action) == JObj(<<<<"action", JStr(action)>>, <<"path", JStr(path)>>>>)

\* {"path":"/","data":{"a_dot_md":{...create a.md...}}}
SingleEntryPatch ==
    Json(JObj(<<<<"path", JStr(<<"/">>)>>,
                <<"data", JObj(<<<<"a_dot_md", RawEntry(<<"a.md">>, "create")>>>>)>>>>))
\* a root update with one entry that does not decode and one that does
TwoEntryUpdate ==
    Json(JObj(<<<<"path", JStr(<<"/">>)>>,
                <<"data", JObj(<<<<"a_dot_md", JObj(<<<<"path", JNum(1)>>>>)>>,
                                 <<"d_slash_b_dot_md",
                                   RawEntry(<<"d", "b.md">>, "create")>>>>)>>>>))
\* {"path":"/d_slash_b_dot_md","data":null}
NullUpdate ==
    Json(JObj(<<<<"path", JStr(<<"/", "d", "_slash_", "b", "_dot_", "md">>)>>,
                <<"data", JNull>>>>))
\* {"path":"/a_dot_md","data":{...save a.md...}}
KeyUpdate ==
    Json(JObj(<<<<"path", JStr(<<"/", "a", "_dot_", "md">>)>>,
                <<"data", RawEntry(<<"a.md">>, "save")>>>>))
\* {"path":"/"}
NoData == Json(JObj(<<<<"path", JStr(<<"/">>)>>>>))

\* a root update with two entries that decode
TwoCreates ==
    Json(JObj(<<<<"path", JStr(<<"/">>)>>,
                <<"data", JObj(<<<<"a_dot_md", RawEntry(<<"a.md">>, "create")>>,
                                 <<"d_slash_b_dot_md",
                                   RawEntry(<<"d", "b.md">>, "create")>>>>)>>>>))
\* {"path":"/a_dot_md","data":{"path":"a.md"}}: data that is no entry, the
\* action is missing
KeyNoEntry ==
    Json(JObj(<<<<"path", JStr(<<"/", "a", "_dot_", "md">>)>>,
                <<"data", JObj(<<<<"path", JStr(<<"a.md">>)>>>>)>>>>))

Payloads == {EmptyText, SingleEntryPatch, TwoEntryUpdate, NullUpdate, KeyUpdate, NoData,
             TwoCreates, KeyNoEntry}

\* the lines of the stream: "event:<type>", "data:<payload>", "" and others
Lines ==
    {[prefix |-> "event:", rest |-> t] : t \in {"put", "patch", "keep-alive", ""}}
    \cup {[prefix |-> "data:", rest |-> d] : d \in Payloads}
    \cup {[prefix |-> "", rest |-> ""], [prefix |-> ":", rest |-> ""]}

\* the outcomes of the calls of one dispatched event
DispatchOracles ==
    {PushOracle(f, FALSE, FALSE, TRUE, FALSE) :
        f \in {NoFetch} \cup {[get |-> Some(c), fwrite |-> TRUE] : c \in Contents}}

SseInit ==
    /\ s_pc = "connect"
    /\ event_type = ""
    /\ data_buf = EmptyText
    /\ first_put = TRUE
    /\ s_hist = <<>>
    /\ s_conns = 0
    /\ s_lines = 0

SseFrame == UNCHANGED <<calls, userOps, vaultVars, diffVars, moreVars>>
EngineUntouched ==
    UNCHANGED <<local_hashes, local_content_cache, remote_modified, disk, touch,
                reqs, fsops, last>>

\* client.get(&url).send() is Ok: the locals of a connection are created
Connected ==
    /\ s_pc = "connect"
    /\ s_pc' = "read"
    /\ event_type' = ""
    /\ data_buf' = EmptyText
    /\ first_put' = TRUE
    /\ s_hist' = <<>>
    /\ s_lines' = 0
    /\ s_conns' = IF s_conns < MaxConns THEN s_conns + 1 ELSE s_conns
    /\ EngineUntouched /\ SseFrame

\* send() is Err
ConnectFailed ==
    /\ s_pc = "connect"
    /\ s_pc' = "sleep"
    /\ UNCHANGED <<event_type, data_buf, first_put, s_hist, s_conns, s_lines>>
    /\ EngineUntouched /\ SseFrame

\* variant used to test the statements: the first event is skipped
FirstPutFilterAnyType(fp, type) == fp

\* a variant that skips every put
FirstPutFilterEveryPut(fp, type) == type = "put"

\* the first put of a connection is skipped
FirstPutFilter(fp, type) == fp /\ type = "put"

\* one Ok(line) of reader.lines()
ReadLine ==
    /\ s_pc = "read"
    /\ s_lines < MaxLines
    /\ s_lines' = s_lines + 1
    /\ UNCHANGED <<s_pc, s_conns>>
    /\ SseFrame
    /\ \E line \in Lines :
        IF line.prefix = "event:"
        THEN /\ event_type' = line.rest
             /\ UNCHANGED <<data_buf, first_put, s_hist>>
             /\ EngineUntouched
        ELSE IF line.prefix = "data:"
        THEN /\ data_buf' = line.rest
             /\ UNCHANGED <<event_type, first_put, s_hist>>
             /\ EngineUntouched
        ELSE IF line.prefix = "" /\ event_type # ""
        THEN IF event_type \in {"put", "patch"}
             THEN IF FirstPutFilter(first_put, event_type)
                  THEN /\ first_put' = FALSE
                       /\ event_type' = ""
                       /\ data_buf' = EmptyText
                       /\ s_hist' = Append(s_hist, [type |-> event_type,
                              data |-> data_buf, passed |-> FALSE, ncalls |-> 0])
                       /\ EngineUntouched
                  ELSE \E os \in [1..2 -> DispatchOracles] :
                         LET S == handle_sse_data(Cur, data_buf, os)
                         IN /\ Leave(S, "handle_sse_data", S.engine_calls)
                            /\ s_hist' = Append(s_hist, [type |-> event_type,
                                   data |-> data_buf, passed |-> TRUE,
                                   ncalls |-> Len(S.engine_calls)])
                            /\ event_type' = ""
                            /\ data_buf' = EmptyText
                            /\ UNCHANGED first_put
             ELSE /\ event_type' = ""
                  /\ data_buf' = EmptyText
                  /\ s_hist' = Append(s_hist, [type |-> event_type,
                         data |-> data_buf, passed |-> FALSE, ncalls |-> 0])
                  /\ UNCHANGED first_put
                  /\ EngineUntouched
        ELSE /\ UNCHANGED <<event_type, data_buf, first_put, s_hist>>
             /\ EngineUntouched

\* an Err(e) line, or the end of the stream
Disconnected ==
    /\ s_pc = "read"
    /\ s_pc' = "sleep"
    /\ UNCHANGED <<event_type, data_buf, first_put, s_hist, s_conns, s_lines>>
    /\ EngineUntouched /\ SseFrame

\* thread::sleep(5 s), then the next turn of the loop
Slept ==
    /\ s_pc = "sleep"
    /\ s_pc' = "connect"
    /\ UNCHANGED <<event_type, data_buf, first_put, s_hist, s_conns, s_lines>>
    /\ EngineUntouched /\ SseFrame

(***************************************************************************)
(* The subscriber thread for as long as it runs: nothing is counted, and   *)
(* a panic in a handler unwinds the thread (s_pc = "dead").                *)
(***************************************************************************)
\* {"path":"/a_dot_md","data":{...create a.md...}}
CreateUpdate ==
    Json(JObj(<<<<"path", JStr(<<"/", "a", "_dot_", "md">>)>>,
                <<"data", RawEntry(<<"a.md">>, "create")>>>>))
\* {"path":"/a_dot_md","data":{action: save, path: a.md, oldHash, diff}}
SaveUpdate(old_content, script) ==
    Json(JObj(<<<<"path", JStr(<<"/", "a", "_dot_", "md">>)>>,
                <<"data", JObj(<<<<"action", JStr("save")>>,
                                 <<"path", JStr(<<"a.md">>)>>,
                                 <<"oldHash", JStr(simple_hash(old_content))>>,
                                 <<"diff", JArr(script)>>>>)>>>>))
\* the payloads of the events: a create, a delete, a save whose diff
\* applies, a save whose second count is 2^64 - 1, a text that is no JSON
RetryPayloads ==
    {CreateUpdate, NullUpdate, EmptyText}
    \cup {SaveUpdate(c, <<OpDel(1), OpIns(<<<<ChB>>>>), OpEq(1)>>) : c \in Contents}
    \cup {SaveUpdate(c, <<OpEq(1), [eq |-> JTop(1)]>>) : c \in Contents}
\* the outcomes of the calls of one dispatched event, in either build
RetryOracles ==
    {[PushOracle(f, TRUE, TRUE, TRUE, TRUE) EXCEPT !.checks = b] :
        f \in {NoFetch} \cup {[get |-> Some(c), fwrite |-> TRUE] : c \in Contents},
        b \in BOOLEAN}

RetryInit ==
    /\ s_pc = "connect"
    /\ event_type = ""
    /\ data_buf = EmptyText
    /\ first_put = TRUE
    /\ s_hist = <<>>
    /\ s_conns = 0
    /\ s_lines = 0

RetryLocals == UNCHANGED <<event_type, data_buf, s_hist, s_conns, s_lines>>

\* client.get(&url).send() is Ok
RetryConnected ==
    /\ s_pc = "connect"
    /\ s_pc' = "read"
    /\ first_put' = TRUE
    /\ RetryLocals /\ EngineUntouched /\ SseFrame

\* send() is Err
RetryConnectFailed ==
    /\ s_pc = "connect"
    /\ s_pc' = "sleep"
    /\ UNCHANGED first_put
    /\ RetryLocals /\ EngineUntouched /\ SseFrame

\* the lines of one put or patch event were read; the first put is
\* skipped, any other goes to handle_sse_data, and a panic under it ends
\* the thread
RetryEvent ==
    /\ s_pc = "read"
    /\ RetryLocals /\ SseFrame
    /\ \E type \in {"put", "patch"}, data \in RetryPayloads :
         IF FirstPutFilter(first_put, type)
         THEN /\ first_put' = FALSE
              /\ UNCHANGED s_pc
              /\ EngineUntouched
         ELSE \E os \in [1..2 -> RetryOracles] :
                LET S == handle_sse_data(Cur, data, os)
                IN /\ Leave(S, "handle_sse_data", S.engine_calls)
                   /\ s_pc' = IF S.result = "Panic" THEN "dead" ELSE "read"
                   /\ UNCHANGED first_put

\* an Err(e) line, or the end of the stream
RetryDisconnected ==
    /\ s_pc = "read"
    /\ s_pc' = "sleep"
    /\ UNCHANGED first_put
    /\ RetryLocals /\ EngineUntouched /\ SseFrame

\* thread::sleep(5 s) returns, then the next turn of the loop
RetrySlept ==
    /\ s_pc = "sleep"
    /\ s_pc' = "connect"
    /\ UNCHANGED first_put
    /\ RetryLocals /\ EngineUntouched /\ SseFrame

SseIdle ==
    /\ s_pc = "off" /\ event_type = "" /\ data_buf = EmptyText /\ first_put = TRUE
    /\ s_hist = <<>> /\ s_conns = 0 /\ s_lines = 0

(***************************************************************************)
(* The private vault server.  Two sources hold it: private_vault.rs and    *)
(* the copy inside main.rs; they differ in the two GET handlers.           *)
(* A request path is the text of the wildcard capture, a sequence of       *)
(* pieces: names, "/" and the escape "%2F".                                *)
(***************************************************************************)
\* most requests served in one run
MaxRequests == 2

ServerState == [local_path |-> local_path, token |-> "tok"]

\* urlencoding::decode
url_decode(text) == [i \in 1..Len(text) |-> IF text[i] = "%2F" THEN "/" ELSE text[i]]

\* the components of a path text (Path::components)
RECURSIVE NamesOf(_)
NamesOf(text) ==
    IF Len(text) = 0 THEN <<>>
    ELSE IF text[1] \in {"/", "."} THEN NamesOf(Tail(text))
    ELSE <<text[1]>> \o NamesOf(Tail(text))

PathOf(text) ==
    IF Len(text) > 0 /\ text[1] = "/" THEN <<"/">> \o NamesOf(text)
    ELSE NamesOf(text)

Header(prefix, rest) == [prefix |-> prefix, rest |-> rest]

Response(status, body) == [status |-> status, body |-> body]

\* what a handler leaves: the disk, the response, the filesystem calls
Served(files, resp, ops) == [files |-> files, resp |-> resp, fsops |-> ops]

\* variant used to test the statements: the token is not compared
check_auth_any_bearer(state, auth_header) ==
    IF IsSome(auth_header) /\ Unwrap(auth_header).prefix = "Bearer "
    THEN "Ok"
    ELSE "UNAUTHORIZED"

check_auth(state, auth_header) ==
    IF IsSome(auth_header) /\ Unwrap(auth_header).prefix = "Bearer "
    THEN IF Unwrap(auth_header).rest = state.token THEN "Ok" ELSE "UNAUTHORIZED"
    ELSE "UNAUTHORIZED"

\* the files under a directory
Under(files, dir) == {g \in DOMAIN files : PathStartsWith(g, dir) /\ Len(g) > Len(dir)}

\* the body of api_list_files after the auth check
ListFiles(state, files) ==
    Served(files, Response(200, scan_local_md_files(files, state.local_path)),
           <<FsOp("read_dir", state.local_path)>>)

\* the body of api_get_file after the auth check
GetFile(state, files, path) ==
    LET decoded == url_decode(path)
        file_path == Join(state.local_path, PathOf(decoded))
    IN IF ~PathStartsWith(file_path, state.local_path)
       THEN Served(files, Response(403, None), <<>>)
       ELSE IF Resolve(file_path) \in DOMAIN files
       THEN Served(files, Response(200, Some(files[Resolve(file_path)])),
                   <<FsOp("read_to_string", file_path)>>)
       ELSE Served(files, Response(404, None), <<FsOp("read_to_string", file_path)>>)

\* private_vault.rs
api_list_files(state, files, req) ==
    IF check_auth(state, req.auth) # "Ok"
    THEN Served(files, Response(401, None), <<>>)
    ELSE ListFiles(state, files)

api_get_file(state, files, req) ==
    IF check_auth(state, req.auth) # "Ok"
    THEN Served(files, Response(401, None), <<>>)
    ELSE GetFile(state, files, req.path)

\* main.rs
main_api_list_files(state, files, req) == ListFiles(state, files)

\* variant used to test the statements: the copy asks for the token too
main_api_get_file_with_auth(state, files, req) ==
    IF check_auth(state, req.auth) # "Ok"
    THEN Served(files, Response(401, None), <<>>)
    ELSE GetFile(state, files, req.path)

main_api_get_file(state, files, req) == GetFile(state, files, req.path)

\* ok: the filesystem calls of the request succeed where the disk allows
api_put_file(state, files, req, ok) ==
    IF check_auth(state, req.auth) # "Ok"
    THEN Served(files, Response(401, None), <<>>)
    ELSE LET decoded == url_decode(req.path)
             file_path == Join(state.local_path, PathOf(decoded))
             mkdir == IF IsSome(Parent(file_path))
                      THEN <<FsOp("create_dir_all", Unwrap(Parent(file_path)))>>
                      ELSE <<>>
         IN IF ~PathStartsWith(file_path, state.local_path)
            THEN Served(files, Response(403, None), <<>>)
            ELSE IF ok /\ ~IsDir(files, Resolve(file_path))
            THEN Served(MapInsert(files, Resolve(file_path), req.content),
                        Response(200, Some(req.content)),
                        Append(mkdir, FsOp("write", file_path)))
            ELSE Served(files, Response(500, None), mkdir)

api_delete_file(state, files, req, ok) ==
    IF check_auth(state, req.auth) # "Ok"
    THEN Served(files, Response(401, None), <<>>)
    ELSE LET decoded == url_decode(req.path)
             file_path == Join(state.local_path, PathOf(decoded))
             file == Resolve(file_path)
         IN IF ~PathStartsWith(file_path, state.local_path)
            THEN Served(files, Response(403, None), <<>>)
            ELSE IF IsDir(files, file)
            THEN IF ok
                 THEN Served([g \in (DOMAIN files) \ Under(files, file) |-> files[g]],
                             Response(200, None),
                             <<FsOp("remove_dir_all", file_path)>>)
                 ELSE Served(files, Response(500, None), <<>>)
            ELSE IF ok /\ file \in DOMAIN files
            THEN Served(MapRemove(files, file), Response(200, None),
                        <<FsOp("remove_file", file_path)>>)
            ELSE Served(files, Response(404, None), <<>>)

\* fs::rename of a file or of a directory with everything under it
MovePath(g, old, new) ==
    IF PathStartsWith(g, old) THEN new \o SubSeq(g, Len(old) + 1, Len(g)) ELSE g

RenameOnDisk(files, old, new) ==
    LET moved == {g \in DOMAIN files : PathStartsWith(g, old)}
        kept == {g \in (DOMAIN files) \ moved : ~PathStartsWith(g, new)}
    IN [h \in kept \cup {MovePath(g, old, new) : g \in moved} |->
          IF h \in kept THEN files[h]
          ELSE files[CHOOSE g \in moved : MovePath(g, old, new) = h]]

\* fs::rename is refused by the system: a directory into itself, a
\* directory onto a file, a file onto a directory
RenameRefused(files, old, new) ==
    \/ IsDir(files, old) /\ PathStartsWith(new, old) /\ new # old
    \/ IsDir(files, old) /\ new \in DOMAIN files
    \/ old \in DOMAIN files /\ IsDir(files, new)

api_rename(state, files, req, ok) ==
    IF check_auth(state, req.auth) # "Ok"
    THEN Served(files, Response(401, None), <<>>)
    ELSE LET old_decoded == url_decode(req.old_path)
             new_decoded == url_decode(req.new_path)
             old_file_path == Join(state.local_path, PathOf(old_decoded))
             new_file_path == Join(state.local_path, PathOf(new_decoded))
             old == Resolve(old_file_path)
             new == Resolve(new_file_path)
             mkdir == IF IsSome(Parent(new_file_path))
                      THEN <<FsOp("create_dir_all", Unwrap(Parent(new_file_path)))>>
                      ELSE <<>>
         IN IF \/ ~PathStartsWith(old_file_path, state.local_path)
               \/ ~PathStartsWith(new_file_path, state.local_path)
            THEN Served(files, Response(403, None), <<>>)
            ELSE IF ~(old \in DOMAIN files \/ IsDir(files, old))
            THEN Served(files, Response(404, None), <<>>)
            ELSE IF ok /\ ~RenameRefused(files, old, new)
            THEN Served(RenameOnDisk(files, old, new), Response(200, None),
                        Append(mkdir, FsRename(old_file_path, new_file_path)))
            ELSE Served(files, Response(500, None), mkdir)

\* the requests sent to the server
AuthHeaders ==
    {None, Some(Header("Bearer ", "tok")), Some(Header("Bearer ", "bad")),
     Some(Header("", "tok"))}

RequestPaths ==
    {<<"a.md">>, <<"d", "/", "b.md">>, <<"d">>, <<"x.md">>, <<".h.md">>,
     <<"..", "%2F", "escape.md">>, <<"%2F", "escape.md">>}

FileRequest(method, auth, path, content) ==
    [method |-> method, auth |-> auth, path |-> path, content |-> content,
     old_path |-> <<>>, new_path |-> <<>>]

RenameRequest(auth, old_path, new_path) ==
    [method |-> "POST", auth |-> auth, path |-> <<>>, content |-> <<>>,
     old_path |-> old_path, new_path |-> new_path]

\* the directory the server was started on, with a hidden file in it, and a
\* file beside it
VaultDisk ==
    [g \in {<<"/", "root", "a.md">>, <<"/", "root", "d", "b.md">>,
            <<"/", "root", ".h.md">>, <<"/", "escape.md">>} |-> <<ChA>>]

VaultInit ==
    /\ v_variant \in {"private_vault.rs", "main.rs"}
    /\ v_disk = VaultDisk
    /\ v_req = None
    /\ v_resp = None
    /\ v_fsops = <<>>
    /\ v_n = 0

\* the server started on a directory with any of these files in it
ScanFiles ==
    {<<"/", "root", "a.md">>, <<"/", "root", "x.md">>, <<"/", "root", ".h.md">>,
     <<"/", "root", "d", "a.md">>, <<"/", "root", "d", "b.md">>,
     <<"/", "root", "d", "e", "x.md">>, <<"/", "root", "e", "a.md">>}
ScanInit ==
    /\ v_variant \in {"private_vault.rs", "main.rs"}
    /\ v_disk \in {[g \in files |-> <<ChA>>] : files \in SUBSET ScanFiles}
    /\ v_req = None
    /\ v_resp = None
    /\ v_fsops = <<>>
    /\ v_n = 0

VaultIdle ==
    /\ v_variant = "main.rs" /\ v_disk = EmptyMap /\ v_req = None /\ v_resp = None
    /\ v_fsops = <<>> /\ v_n = 0

Respond(req, served) ==
    /\ v_n < MaxRequests
    /\ v_n' = v_n + 1
    /\ v_req' = Some(req)
    /\ v_disk' = served.files
    /\ v_resp' = Some(served.resp)
    /\ v_fsops' = served.fsops
    /\ UNCHANGED <<v_variant, engVars, sseVars, diffVars, moreVars>>

\* GET /api/files
ApiListFiles ==
    \E auth \in AuthHeaders :
        LET req == FileRequest("LIST", auth, <<>>, <<>>)
        IN Respond(req, IF v_variant = "main.rs"
                        THEN main_api_list_files(ServerState, v_disk, req)
                        ELSE api_list_files(ServerState, v_disk, req))

\* GET /api/file/*path
ApiGetFile ==
    \E auth \in AuthHeaders, path \in RequestPaths :
        LET req == FileRequest("GET", auth, path, <<>>)
        IN Respond(req, IF v_variant = "main.rs"
                        THEN main_api_get_file(ServerState, v_disk, req)
                        ELSE api_get_file(ServerState, v_disk, req))

\* PUT /api/file/*path
ApiPutFile ==
    \E auth \in AuthHeaders, path \in RequestPaths, ok \in BOOLEAN :
        LET req == FileRequest("PUT", auth, path, <<ChB>>)
        IN Respond(req, api_put_file(ServerState, v_disk, req, ok))

\* DELETE /api/file/*path
ApiDeleteFile ==
    \E auth \in AuthHeaders, path \in RequestPaths, ok \in BOOLEAN :
        LET req == FileRequest("DELETE", auth, path, <<>>)
        IN Respond(req, api_delete_file(ServerState, v_disk, req, ok))

\* POST /api/rename
ApiRename ==
    \E auth \in AuthHeaders, old \in RequestPaths, new \in RequestPaths,
       ok \in BOOLEAN :
        LET req == RenameRequest(auth, old, new)
        IN Respond(req, api_rename(ServerState, v_disk, req, ok))

(***************************************************************************)
(* The diff codec exercised on its own: a pair of texts is drawn, the      *)
(* script is generated, then applied to the old text.                      *)
(***************************************************************************)
DiffInit ==
    /\ d_pc = "start"
    /\ d_old \in Texts
    /\ d_new \in Texts
    /\ d_script = <<>>
    /\ d_applied = None

Generate ==
    /\ d_pc = "start"
    /\ d_script' = generate_line_diff(d_old, d_new)
    /\ d_pc' = "generated"
    /\ UNCHANGED <<d_old, d_new, d_applied, engVars, sseVars, vaultVars, moreVars>>

Apply ==
    /\ d_pc = "generated"
    /\ \E overflow_checks \in BOOLEAN :
          d_applied' = apply_line_diff(d_old, d_script, overflow_checks)
    /\ d_pc' = "applied"
    /\ UNCHANGED <<d_old, d_new, d_script, engVars, sseVars, vaultVars, moreVars>>

DiffNext == Generate \/ Apply

\* apply_line_diff on the scripts a push event can carry: any JSON array
\* most ops in a script
MaxOps == 2
\* ops of every shape: counts within and beyond the old lines, the count
\* 2^64 - 1, a negative count, a count that is a string, an op without any
\* of the three keys, insertions of strings and of a number, ops with two keys
ScriptOps ==
    {OpEq(n) : n \in 0..2} \cup {OpDel(n) : n \in 0..2}
    \cup {[eq |-> JTop(1)], [del |-> JTop(1)]}
    \cup {[eq |-> JNum(0 - 1)], [del |-> JStr(<<ChA>>)], [op |-> JNum(1)]}
    \cup {OpIns(<<<<ChB>>>>), [ins |-> JArr(<<JStr(<<ChB>>), JNum(1)>>)],
           [ins |-> JNum(1)]}
    \cup {[eq |-> JStr(<<ChA>>), del |-> JNum(1)],
           [eq |-> JNum(1), ins |-> JArr(<<JNum(1)>>)]}
ApplyScripts ==
    UNION {[1..n -> ScriptOps] : n \in 0..MaxOps}

ApplyInit ==
    /\ d_pc = "received"
    /\ d_old \in Texts
    /\ d_new = <<>>
    /\ d_script \in ApplyScripts
    /\ d_applied = None

\* apply_line_diff(&old_content, diff), in a build with or without
\* overflow checks
ApplyScript ==
    /\ d_pc = "received"
    /\ \E overflow_checks \in BOOLEAN :
          d_applied' = apply_line_diff(d_old, d_script, overflow_checks)
    /\ d_pc' = "applied"
    /\ UNCHANGED <<d_old, d_new, d_script, engVars, sseVars, vaultVars, moreVars>>

(***************************************************************************)
(* The threads of start_cloud_sync and the engine mutex.  A handler        *)
(* invocation is HandlerSteps accesses to the caches; l_log lists the      *)
(* accesses as <<thread, invocation>>.                                     *)
(***************************************************************************)
\* most handler invocations requested in one run
MaxRuns == 3
\* cache accesses of one handler invocation: a read, then a write
HandlerSteps == 2

\* the thread calling start_cloud_sync, the three threads it spawns, and
\* the tray's menu thread ("sync now")
Threads == {"startup", "watcher", "rtdb", "timer", "menu"}

\* the handlers a thread invokes
HandlersOf(t) ==
    IF t = "watcher" THEN {"handle_local_change", "handle_local_folder_delete"}
    ELSE IF t = "rtdb" THEN {"handle_rtdb_event"}
    ELSE {"full_sync"}

Thread(pc, handler, step, run) ==
    [pc |-> pc, handler |-> handler, step |-> step, run |-> run]

\* a call site that enters its handler without the guard of engine.lock()
LockedButTimer(t) == t # "timer"
\* every call site of a handler is the body of
\* `if let Ok(mut eng) = engine.lock()`
Locked(t) == t \in Threads

LockIdle ==
    /\ l_th = [t \in Threads |-> Thread("unborn", "", 0, 0)]
    /\ l_mutex = None
    /\ l_log = <<>>
    /\ l_runs = 0

\* start_cloud_sync is entered: Arc::new(Mutex::new(SyncEngine::new(config)))
LockInit ==
    /\ l_th = [t \in Threads |->
                 IF t = "startup" THEN Thread("spawn_watcher", "", 0, 0)
                 ELSE IF t = "menu" THEN Thread("idle", "", 0, 0)
                 ELSE Thread("unborn", "", 0, 0)]
    /\ l_mutex = None
    /\ l_log = <<>>
    /\ l_runs = 0

LockFrame == UNCHANGED <<engVars, sseVars, vaultVars, diffVars, remoteVars, hashVars>>

\* the three thread::spawn calls, in program order; after the last one the
\* startup thread goes on to its own engine.lock()
SpawnThread ==
    \E step \in {<<"spawn_watcher", "watcher", "idle", "spawn_rtdb">>,
                 <<"spawn_rtdb", "rtdb", "config", "spawn_timer">>,
                 <<"spawn_timer", "timer", "idle", "lock">>} :
        /\ l_th["startup"].pc = step[1]
        /\ l_th' = [l_th EXCEPT
                      ![step[2]] = Thread(step[3], "", 0, 0),
                      !["startup"] = Thread(step[4],
                          IF step[4] = "lock" THEN "full_sync" ELSE "", 0, 0)]
        /\ UNCHANGED <<l_mutex, l_log, l_runs>>
        /\ LockFrame

\* a variant that asks for the sync-config again after a failure
SyncConfigRetry ==
    \E ok \in BOOLEAN :
        /\ l_th["rtdb"].pc \in {"config", "ended"}
        /\ l_th' = [l_th EXCEPT !["rtdb"] =
                      Thread(IF l_th["rtdb"].pc = "ended" THEN "config"
                             ELSE IF ok THEN "idle" ELSE "ended", "", 0, 0)]
        /\ UNCHANGED <<l_mutex, l_log, l_runs>>
        /\ LockFrame

\* api.get_sync_config(): Ok starts the subscription, Err ends the thread
SyncConfig ==
    \E ok \in BOOLEAN :
        /\ l_th["rtdb"].pc = "config"
        /\ l_th' = [l_th EXCEPT !["rtdb"] =
                      Thread(IF ok THEN "idle" ELSE "ended", "", 0, 0)]
        /\ UNCHANGED <<l_mutex, l_log, l_runs>>
        /\ LockFrame

\* a watcher event, a decoded push entry, the end of the timer's sleep or
\* the menu's "sync now" (once start_cloud_sync has returned the engine):
\* the thread reaches engine.lock()
Arrive ==
    \E t \in Threads \ {"startup"} :
        \E h \in HandlersOf(t) :
            /\ l_runs < MaxRuns
            /\ l_th[t].pc = "idle"
            /\ t = "menu" => l_th["startup"].pc = "returned"
            /\ l_th' = [l_th EXCEPT ![t] = Thread("lock", h, 0, 0)]
            /\ UNCHANGED <<l_mutex, l_log, l_runs>>
            /\ LockFrame

\* engine.lock() returns the guard once no other thread holds the mutex
Acquire ==
    \E t \in Threads :
        /\ l_th[t].pc = "lock"
        /\ Locked(t) => l_mutex = None
        /\ l_mutex' = IF Locked(t) THEN Some(t) ELSE l_mutex
        /\ l_runs' = l_runs + 1
        /\ l_th' = [l_th EXCEPT ![t] = Thread("handler", @.handler, 0, l_runs + 1)]
        /\ UNCHANGED l_log
        /\ LockFrame

\* one access of the running handler to the caches
HandlerStep ==
    \E t \in Threads :
        /\ l_th[t].pc = "handler"
        /\ l_th[t].step < HandlerSteps
        /\ l_log' = Append(l_log, <<t, l_th[t].run>>)
        /\ l_th' = [l_th EXCEPT ![t].step = @ + 1]
        /\ UNCHANGED <<l_mutex, l_runs>>
        /\ LockFrame

\* the handler returns and the guard is dropped at the end of the if-let
Release ==
    \E t \in Threads :
        /\ l_th[t].pc = "handler"
        /\ l_th[t].step = HandlerSteps
        /\ l_mutex' = IF l_mutex = Some(t) THEN None ELSE l_mutex
        /\ l_th' = [l_th EXCEPT ![t] =
                      Thread(IF t = "startup" THEN "returned" ELSE "idle", "", 0, 0)]
        /\ UNCHANGED <<l_log, l_runs>>
        /\ LockFrame

(***************************************************************************)
(* simple_hash exercised on its own, on texts whose hash overflows 32 bits *)
(* and on one whose hash is -2^31.                                         *)
(***************************************************************************)
\* longest text hashed
MaxHashLen == 4

\* 'a', U+6941, U+33258 and U+10FFFF
HashAlphabet == {ChA, 26945, 209496, 1114111}
RECURSIVE HashTextsOfLen(_)
HashTextsOfLen(n) ==
    IF n = 0 THEN {<<>>}
    ELSE {<<c>> \o t : c \in HashAlphabet, t \in HashTextsOfLen(n - 1)}
HashTexts == UNION {HashTextsOfLen(n) : n \in 0..MaxHashLen}

HashIdle == h_pc = "idle" /\ h_text = <<>> /\ h_out = <<>>

HashInit ==
    /\ h_pc = "start"
    /\ h_text \in HashTexts
    /\ h_out = <<>>

SimpleHash ==
    /\ h_pc = "start"
    /\ h_out' = simple_hash(h_text)
    /\ h_pc' = "hashed"
    /\ UNCHANGED <<h_text, engVars, sseVars, vaultVars, diffVars, lockVars, remoteVars>>

(***************************************************************************)
(* handle_local_folder_delete on an engine that has synced files in the    *)
(* folders d, d/d2 and d2.                                                 *)
(***************************************************************************)
FolderCacheKeys ==
    {<<"a.md">>, <<"d", "b.md">>, <<"d", "d2", "b.md">>, <<"d2", "b.md">>}
FolderInputs == {<<"d">>, <<"d", "d2">>, <<"d2">>}

\* the engine after a full_sync that downloaded the files of `keys`
FolderInit ==
    \E keys \in SUBSET FolderCacheKeys :
        \E content \in [keys -> Contents] :
            /\ local_content_cache = content
            /\ local_hashes = [k \in keys |-> simple_hash(content[k])]
            /\ remote_modified = [k \in keys |-> "t1"]
            /\ disk = [f \in {Join(local_path, k) : k \in keys} |->
                         content[Unwrap(strip_prefix(f, local_path))]]
            /\ touch = [f \in {Join(local_path, k) : k \in keys} |-> "write"]
            /\ reqs = <<>>
            /\ fsops = <<>>
            /\ last = [op |-> "new", arg |-> <<>>, ret |-> <<"Ok", 0, 0>>]
            /\ calls = 0
            /\ userOps = 0

FolderFrame == UNCHANGED <<sseVars, vaultVars, diffVars, moreVars>>

\* the user removes a folder with everything in it
FolderRemoved ==
    \E f \in FolderInputs :
        LET gone == {g \in DOMAIN disk : PathStartsWith(g, Join(local_path, f))}
        IN /\ userOps < MaxUserOps
           /\ userOps' = userOps + 1
           /\ IsDir(disk, Join(local_path, f))
           /\ disk' = [g \in DOMAIN disk \ gone |-> disk[g]]
           /\ touch' = [g \in DOMAIN touch \ gone |-> touch[g]]
           /\ reqs' = <<>> /\ fsops' = <<>>
           /\ last' = [op |-> "folder_removed", arg |-> f, ret |-> <<"Ok", 0, 0>>]
           /\ UNCHANGED <<local_hashes, local_content_cache, remote_modified, calls>>
           /\ FolderFrame

\* the watcher's event for a path without extension md that no longer
\* exists
FolderDelete ==
    \E f \in FolderInputs :
        LET keys == FolderKeys(Cur, Join(local_path, f))
        IN \E order \in {sq \in [1..Cardinality(keys) -> keys] :
                           \A i, j \in DOMAIN sq : i # j => sq[i] # sq[j]},
              del \in SUBSET keys :
            /\ calls < MaxCalls
            /\ calls' = calls + 1
            /\ ~IsDir(disk, Join(local_path, f))
            /\ Leave(handle_local_folder_delete(Cur, Join(local_path, f),
                                                [order |-> order, del |-> del]),
                     "handle_local_folder_delete", [folder |-> f, del |-> del])
            /\ UNCHANGED userOps
            /\ FolderFrame

(***************************************************************************)
(* The engine against the server's store: the listing, the GETs and the    *)
(* effect of PUT and DELETE come from `remote`; any call can still fail.   *)
(***************************************************************************)
\* most handler calls in one run against the store
MaxDriftCalls == 3

\* the file the user edits
DriftPaths == {<<"a.md">>}

\* the server applies the PUTs and DELETEs of `rs` that succeeded (`ok`:
\* their paths), stamping each stored file with `clock`
RECURSIVE ServerApply(_, _, _, _)
ServerApply(rem, rs, ok, clock) ==
    IF Len(rs) = 0 THEN rem
    ELSE LET r == rs[1]
             rem1 == IF r.verb = "PUT" /\ r.path \in ok
                     THEN MapInsert(rem, r.path,
                                    [content |-> r.content, modified |-> clock])
                     ELSE IF r.verb = "DELETE" /\ r.path \in ok
                     THEN MapRemove(rem, r.path)
                     ELSE rem
         IN ServerApply(rem1, Tail(rs), ok, clock)

\* GET /api/{user}/files answered from the store
RemoteListing(rem) ==
    ListingOf(DOMAIN rem, [q \in DOMAIN rem |-> Some(rem[q].modified)])

\* the outcomes of the download of path q: the GET fails, the write fails,
\* both succeed
DriftDownloads(rem, q) ==
    {[get |-> None, write |-> FALSE],
     [get |-> Some(rem[q].content), write |-> FALSE],
     [get |-> Some(rem[q].content), write |-> TRUE]}

RemoteIdle == remote = EmptyMap /\ r_clock = 0 /\ r_failed = {}

DriftInit ==
    /\ remote \in {EmptyMap}
                  \cup {[q \in DriftPaths |-> [content |-> c, modified |-> 1]] :
                          c \in Contents}
    /\ r_clock = 1
    /\ r_failed = {}

DriftFrame == UNCHANGED <<sseVars, vaultVars, diffVars, lockVars, hashVars>>

\* the user edits the file
DriftUserWrite ==
    \E q \in DriftPaths, c \in Contents :
        /\ userOps < MaxUserOps
        /\ userOps' = userOps + 1
        /\ MapGet(disk, Join(local_path, q)) # Some(c)
        /\ disk' = MapInsert(disk, Join(local_path, q), c)
        /\ touch' = MapInsert(touch, Join(local_path, q), "user")
        /\ reqs' = <<>> /\ fsops' = <<>>
        /\ last' = [op |-> "user_write", arg |-> q, ret |-> <<"Ok", 0, 0>>]
        /\ r_failed' = r_failed \ {q}
        /\ UNCHANGED <<local_hashes, local_content_cache, remote_modified, calls,
                       remote, r_clock>>
        /\ DriftFrame

\* the watcher's handle_local_change for the file; the PUT or DELETE reaches
\* the store when it succeeds
DriftLocalChange ==
    \E q \in DriftPaths, o \in [read : BOOLEAN, put : BOOLEAN, del : BOOLEAN] :
        LET S == handle_local_change(Cur, Join(local_path, q), o)
            put == \E i \in DOMAIN S.reqs : S.reqs[i].verb = "PUT"
            ok == IF put THEN (IF o.put THEN {q} ELSE {})
                  ELSE (IF o.del THEN {q} ELSE {})
        IN /\ calls < MaxDriftCalls
           /\ calls' = calls + 1
           /\ Leave(S, "handle_local_change", [path |-> q, o |-> o])
           /\ remote' = ServerApply(remote, S.reqs, ok, r_clock + 1)
           /\ r_clock' = r_clock + 1
           /\ r_failed' = IF put
                          THEN (IF o.put THEN r_failed \ {q} ELSE r_failed \cup {q})
                          ELSE r_failed
           /\ UNCHANGED userOps
           /\ DriftFrame

\* the timer's full_sync against the store; clean: no call of it fails
DriftFullSync ==
    \E list_ok \in BOOLEAN :
        LET listing == RemoteListing(remote)
            scanned == EngineScan(Cur)
            local == {scanned[i] : i \in 1..Len(scanned)}
        IN \E dl \in {f \in [DOMAIN remote ->
                               UNION {DriftDownloads(remote, q) : q \in DOMAIN remote}] :
                        \A q \in DOMAIN remote : f[q] \in DriftDownloads(remote, q)},
              up \in [local \ DOMAIN remote -> UploadOutcomes] :
            LET o == [list |-> IF list_ok THEN Some(listing) ELSE None,
                      dl |-> dl, up |-> up]
                S == full_sync(Cur, o)
                clean == /\ list_ok
                         /\ \A q \in DOMAIN dl : IsSome(dl[q].get) /\ dl[q].write
                         /\ \A q \in DOMAIN up : up[q].read /\ up[q].put
            IN /\ calls < MaxDriftCalls
               /\ calls' = calls + 1
               /\ Leave(S, "full_sync", [clean |-> clean])
               /\ remote' = ServerApply(remote, S.reqs,
                                        {q \in DOMAIN up : up[q].put}, r_clock + 1)
               /\ r_clock' = r_clock + 1
               /\ UNCHANGED <<userOps, r_failed>>
               /\ DriftFrame

(***************************************************************************)
(* handle_local_change on a synced engine, with contents whose diff is as  *)
(* long as the limit and one byte longer.                                  *)
(***************************************************************************)
\* a line of n characters
LongLine(n) == [i \in 1..n |-> ChB]
\* replacing the line "a" by a line of n characters serializes as
\* [{"del":1},{"ins":["..."]}], n + 24 bytes
ChangeContents == {<<ChA>>, LongLine(DiffLimit - 24), LongLine(DiffLimit - 23)}

\* the engine after a full_sync that downloaded the files of `keys`
\* the file the watcher reports
ChangePaths == {<<"a.md">>}

ChangeInit ==
    \E keys \in SUBSET ChangePaths :
        \E content \in [keys -> ChangeContents] :
            /\ local_content_cache = content
            /\ local_hashes = [k \in keys |-> simple_hash(content[k])]
            /\ remote_modified = [k \in keys |-> "t1"]
            /\ disk = [f \in {Join(local_path, k) : k \in keys} |->
                         content[Unwrap(strip_prefix(f, local_path))]]
            /\ touch = [f \in {Join(local_path, k) : k \in keys} |-> "write"]
            /\ reqs = <<>>
            /\ fsops = <<>>
            /\ last = [op |-> "new", arg |-> <<>>, ret |-> <<"Ok", 0, 0>>]
            /\ calls = 0
            /\ userOps = 0

ChangeFrame == UNCHANGED <<sseVars, vaultVars, diffVars, moreVars>>

\* the user saves a file under the root
ChangeUserWrite ==
    \E p \in ChangePaths, c \in ChangeContents :
        /\ userOps < MaxUserOps
        /\ userOps' = userOps + 1
        /\ MapGet(disk, Join(local_path, p)) # Some(c)
        /\ disk' = MapInsert(disk, Join(local_path, p), c)
        /\ touch' = MapInsert(touch, Join(local_path, p), "user")
        /\ reqs' = <<>> /\ fsops' = <<>>
        /\ last' = [op |-> "user_write", arg |-> p, ret |-> <<"Ok", 0, 0>>]
        /\ UNCHANGED <<local_hashes, local_content_cache, remote_modified, calls>>
        /\ ChangeFrame

\* the user removes a file under the root
ChangeUserRemove ==
    \E p \in ChangePaths :
        /\ userOps < MaxUserOps
        /\ userOps' = userOps + 1
        /\ Join(local_path, p) \in DOMAIN disk
        /\ disk' = MapRemove(disk, Join(local_path, p))
        /\ touch' = MapRemove(touch, Join(local_path, p))
        /\ reqs' = <<>> /\ fsops' = <<>>
        /\ last' = [op |-> "user_remove", arg |-> p, ret |-> <<"Ok", 0, 0>>]
        /\ UNCHANGED <<local_hashes, local_content_cache, remote_modified, calls>>
        /\ ChangeFrame

\* the watcher's event for a path with extension md; the outcomes of the
\* calls are kept with the argument
ChangeLocalChange ==
    \E p \in ChangePaths :
      \E o \in IF Join(local_path, p) \in DOMAIN disk
               THEN {[read |-> FALSE, put |-> FALSE, del |-> FALSE],
                     [read |-> TRUE, put |-> FALSE, del |-> FALSE],
                     [read |-> TRUE, put |-> TRUE, del |-> FALSE]}
               ELSE [read : {FALSE}, put : {FALSE}, del : BOOLEAN] :
        /\ calls < MaxCalls
        /\ calls' = calls + 1
        /\ Leave(handle_local_change(Cur, Join(local_path, p), o),
                 "handle_local_change", [path |-> p, o |-> o])
        /\ UNCHANGED userOps
        /\ ChangeFrame

(***************************************************************************)
(* handle_local_change on files whose contents share a fingerprint.        *)
(***************************************************************************)
\* "Aa" and "BB" (65 * 31 + 97 = 66 * 31 + 66 = 2112), and "a"
CollideContents == {<<65, 97>>, <<66, 66>>, <<ChA>>}

\* the engine after a full_sync that downloaded the files of `keys`
CollideInit ==
    \E keys \in SUBSET InPaths :
        \E content \in [keys -> CollideContents] :
            /\ local_content_cache = content
            /\ local_hashes = [k \in keys |-> simple_hash(content[k])]
            /\ remote_modified = [k \in keys |-> "t1"]
            /\ disk = [f \in {Join(local_path, k) : k \in keys} |->
                         content[Unwrap(strip_prefix(f, local_path))]]
            /\ touch = [f \in {Join(local_path, k) : k \in keys} |-> "write"]
            /\ reqs = <<>>
            /\ fsops = <<>>
            /\ last = [op |-> "new", arg |-> <<>>, ret |-> <<"Ok", 0, 0>>]
            /\ calls = 0
            /\ userOps = 0

\* the user saves a file under the root
CollideUserWrite ==
    \E p \in InPaths, c \in CollideContents :
        /\ userOps < MaxUserOps
        /\ userOps' = userOps + 1
        /\ MapGet(disk, Join(local_path, p)) # Some(c)
        /\ disk' = MapInsert(disk, Join(local_path, p), c)
        /\ touch' = MapInsert(touch, Join(local_path, p), "user")
        /\ reqs' = <<>> /\ fsops' = <<>>
        /\ last' = [op |-> "user_write", arg |-> p, ret |-> <<"Ok", 0, 0>>]
        /\ UNCHANGED <<local_hashes, local_content_cache, remote_modified, calls>>
        /\ ChangeFrame

\* the watcher's event for a path with extension md; the outcomes of the
\* calls are kept with the argument
CollideLocalChange ==
    \E p \in InPaths :
      \E o \in IF Join(local_path, p) \in DOMAIN disk
               THEN {[read |-> FALSE, put |-> FALSE, del |-> FALSE],
                     [read |-> TRUE, put |-> FALSE, del |-> FALSE],
                     [read |-> TRUE, put |-> TRUE, del |-> FALSE]}
               ELSE [read : {FALSE}, put : {FALSE}, del : BOOLEAN] :
        /\ calls < MaxCalls
        /\ calls' = calls + 1
        /\ Leave(handle_local_change(Cur, Join(local_path, p), o),
                 "handle_local_change", [path |-> p, o |-> o])
        /\ UNCHANGED userOps
        /\ ChangeFrame

(***************************************************************************)
(* The engine on a vault with hidden Markdown files: the watcher passes    *)
(* every path with extension md to handle_local_change.                    *)
(***************************************************************************)
\* the Markdown files of the vault: ".h.md", "d/.h.md" and "a.md"
HiddenPaths == {<<".h.md">>, <<"d", ".h.md">>, <<"a.md">>}

\* SyncEngine::new on a vault that holds some of the files
HiddenInit ==
    /\ local_hashes = EmptyMap
    /\ local_content_cache = EmptyMap
    /\ remote_modified = EmptyMap
    /\ disk \in {[f \in {Join(local_path, q) : q \in files} |-> c] :
                    files \in SUBSET HiddenPaths, c \in Contents}
    /\ touch = [f \in DOMAIN disk |-> "user"]
    /\ reqs = <<>>
    /\ fsops = <<>>
    /\ last = [op |-> "new", arg |-> <<>>, ret |-> <<"Ok", 0, 0>>]
    /\ calls = 0
    /\ userOps = 0

\* the watcher's event for a path whose extension is md:
\* event.path.extension().map_or(false, |e| e == "md")
HiddenLocalChange ==
    /\ calls < MaxCalls
    /\ \E p \in HiddenPaths :
         /\ HasMdExtension(p[Len(p)])
         /\ \E o \in IF Join(local_path, p) \in DOMAIN disk
                      THEN {[read |-> FALSE, put |-> FALSE, del |-> FALSE],
                            [read |-> TRUE, put |-> FALSE, del |-> FALSE],
                            [read |-> TRUE, put |-> TRUE, del |-> FALSE]}
                      ELSE [read : {FALSE}, put : {FALSE}, del : BOOLEAN] :
               Commit(handle_local_change(Cur, Join(local_path, p), o),
                      "handle_local_change", p)

MoreIdle == LockIdle /\ RemoteIdle /\ HashIdle

\* the diff codec alone
DiffIdle == d_pc = "idle" /\ d_old = <<>> /\ d_new = <<>> /\ d_script = <<>>
            /\ d_applied = None
InitDiff == DiffInit /\ EngInit /\ SseIdle /\ VaultIdle /\ MoreIdle
SpecDiff == InitDiff /\ [][DiffNext]_vars

\* the sync engine
Init == EngInit /\ SseIdle /\ VaultIdle /\ DiffIdle /\ MoreIdle
Next ==
    \/ UserWrite
    \/ UserRemove
    \/ FullSyncFailed
    \/ FullSync
    \/ HandleLocalChange
    \/ HandleLocalFolderDelete
    \/ HandleRtdbEvent
Spec == Init /\ [][Next]_vars

\* the vault server answering requests
VaultNext == ApiListFiles \/ ApiGetFile \/ ApiPutFile \/ ApiDeleteFile \/ ApiRename
InitVault == VaultInit /\ EngInit /\ SseIdle /\ DiffIdle /\ MoreIdle
SpecVault == InitVault /\ [][VaultNext]_vars

\* the push subscriber feeding the engine
SseNext == Connected \/ ConnectFailed \/ ReadLine \/ Disconnected \/ Slept
InitSse == SseInit /\ EngInit /\ VaultIdle /\ DiffIdle /\ MoreIdle
SpecSse == InitSse /\ [][SseNext]_vars

\* the threads of start_cloud_sync contending for the engine
LockNext == SpawnThread \/ SyncConfig \/ Arrive \/ Acquire \/ HandlerStep \/ Release
InitLock == LockInit /\ EngInit /\ SseIdle /\ VaultIdle /\ DiffIdle /\ RemoteIdle /\ HashIdle
SpecLock == InitLock /\ [][LockNext]_vars

\* the engine against the server's store
DriftNext == DriftUserWrite \/ DriftLocalChange \/ DriftFullSync
InitDrift == DriftInit /\ EngInit /\ SseIdle /\ VaultIdle /\ DiffIdle /\ LockIdle /\ HashIdle
SpecDrift == InitDrift /\ [][DriftNext]_vars
\* folder deletion on a synced engine
FolderNext == FolderRemoved \/ FolderDelete
InitFolder == FolderInit /\ SseIdle /\ VaultIdle /\ DiffIdle /\ MoreIdle
SpecFolder == InitFolder /\ [][FolderNext]_vars
\* simple_hash alone
HashNext == SimpleHash
InitHash == HashInit /\ EngInit /\ SseIdle /\ VaultIdle /\ DiffIdle /\ LockIdle /\ RemoteIdle
SpecHash == InitHash /\ [][HashNext]_vars
\* the vault server listing directories of every shape
ScanNext == ApiListFiles
InitScan == ScanInit /\ EngInit /\ SseIdle /\ DiffIdle /\ MoreIdle
SpecScan == InitScan /\ [][ScanNext]_vars
\* the subscriber thread for as long as it runs: the sleep returns and
\* send() returns
RetryNext ==
    RetryConnected \/ RetryConnectFailed \/ RetryEvent \/ RetryDisconnected
    \/ RetrySlept
InitRetry == RetryInit /\ EngInit /\ VaultIdle /\ DiffIdle /\ MoreIdle
SpecRetry ==
    /\ InitRetry /\ [][RetryNext]_vars
    /\ WF_vars(RetrySlept)
    /\ WF_vars(RetryConnected \/ RetryConnectFailed)
\* the engine on a vault with hidden files
HiddenNext == FullSync \/ FullSyncFailed \/ HiddenLocalChange
InitHidden == HiddenInit /\ SseIdle /\ VaultIdle /\ DiffIdle /\ MoreIdle
SpecHidden == InitHidden /\ [][HiddenNext]_vars
\* handle_local_change on contents that share a fingerprint
CollideNext == CollideUserWrite \/ CollideLocalChange
InitCollide == CollideInit /\ SseIdle /\ VaultIdle /\ DiffIdle /\ MoreIdle
SpecCollide == InitCollide /\ [][CollideNext]_vars
\* apply_line_diff alone
ApplyNext == ApplyScript
InitApply == ApplyInit /\ EngInit /\ SseIdle /\ VaultIdle /\ MoreIdle
SpecApply == InitApply /\ [][ApplyNext]_vars
\* the watcher's handler on a synced engine
ChangeNext == ChangeUserWrite \/ ChangeUserRemove \/ ChangeLocalChange
InitChange == ChangeInit /\ SseIdle /\ VaultIdle /\ DiffIdle /\ MoreIdle
SpecChange == InitChange /\ [][ChangeNext]_vars

(***************************************************************************)
(* The statements.                                                         *)
(***************************************************************************)
Gets(rs) == {i \in DOMAIN rs : rs[i].verb = "GET"}
EngineWrites(ops) == {i \in DOMAIN ops : ops[i].op \in {"write", "remove_file", "rename"}}

\* C1: in every reachable state of the engine, for every path p in
\* local_hashes, local_content_cache[p] exists and
\* local_hashes[p] = simple_hash(local_content_cache[p])
C1_HashOfCache ==
    \A p \in DOMAIN local_hashes :
        /\ p \in DOMAIN local_content_cache
        /\ local_hashes[p] = simple_hash(local_content_cache[p])

\* a push rename has moved the two entries of a path
C1_Witness ==
    /\ last.op = "handle_rtdb_event"
    /\ last.arg.entry.action = "rename"
    /\ Len(fsops) > 0 /\ fsops[Len(fsops)].op = "rename"
    /\ last.arg.entry.path \in DOMAIN local_hashes
    /\ last.arg.entry.old_path # Some(last.arg.entry.path)

\* C2: every write, delete or rename the engine performs while handling a
\* push event or a full_sync download targets a file inside local_path,
\* whatever path strings the remote supplied
C2_Confined ==
    last.op \in {"handle_rtdb_event", "full_sync"} =>
        \A i \in EngineWrites(fsops) :
            /\ InsideRoot(fsops[i].path)
            /\ IsSome(fsops[i].from) => InsideRoot(Unwrap(fsops[i].from))

\* C6: every file last written, moved or read by the engine has its content
\* in local_content_cache under its path, or its path is in neither cache
C6_CacheCoherent ==
    \A p \in PushPaths :
        LET file == Resolve(Join(local_path, p))
        IN (file \in DOMAIN disk /\ touch[file] # "user") =>
              \/ MapGet(local_content_cache, p) = Some(disk[file])
              \/ (p \notin DOMAIN local_hashes /\ p \notin DOMAIN local_content_cache)

Unauthorized(auth) ==
    \/ auth = None
    \/ Unwrap(auth).prefix # "Bearer "
    \/ Unwrap(auth).rest # "tok"

\* the decoded path has ".." components that lead outside local_path
LeadsOutside(text) ==
    /\ \E i \in DOMAIN text : text[i] = ".."
    /\ ~InsideRoot(Join(local_path, PathOf(url_decode(text))))

\* C3: a request with the valid bearer token whose decoded path leads
\* outside local_path through ".." is answered 403 and no file outside
\* local_path is read, written, deleted or moved
C3_DotDotForbidden ==
    (/\ IsSome(v_req)
     /\ Unwrap(v_req).method \in {"GET", "PUT", "DELETE", "POST"}
     /\ ~Unauthorized(Unwrap(v_req).auth)
     /\ \/ LeadsOutside(Unwrap(v_req).path)
        \/ LeadsOutside(Unwrap(v_req).old_path)
        \/ LeadsOutside(Unwrap(v_req).new_path))
    => /\ Unwrap(v_resp).status = 403
       /\ \A i \in DOMAIN v_fsops :
            /\ InsideRoot(v_fsops[i].path)
            /\ IsSome(v_fsops[i].from) => InsideRoot(Unwrap(v_fsops[i].from))

ServedOpenly ==
    LET req == Unwrap(v_req)
        file == Resolve(Join(local_path, PathOf(url_decode(req.path))))
    IN /\ req.method = "LIST" =>
            /\ Unwrap(v_resp).status = 200
            /\ Unwrap(v_resp).body = scan_local_md_files(v_disk, local_path)
       /\ (req.method = "GET" /\ InsideRoot(file) /\ file \in DOMAIN v_disk) =>
            /\ Unwrap(v_resp).status = 200
            /\ Unwrap(v_resp).body = Some(v_disk[file])

\* C5 as stated: GET /api/files and GET /api/file/*path are served when
\* the request carries no Authorization header
C5_GetOpen ==
    (/\ IsSome(v_req)
     /\ Unwrap(v_req).method \in {"LIST", "GET"}
     /\ Unwrap(v_req).auth = None)
    => ServedOpenly

\* C5: the server of main.rs serves GET /api/files and GET /api/file/*path
\* without an Authorization header; the server of private_vault.rs answers
\* them 401
C5_GetOpenInMain ==
    (/\ IsSome(v_req)
     /\ Unwrap(v_req).method \in {"LIST", "GET"}
     /\ Unwrap(v_req).auth = None)
    => IF v_variant = "main.rs" THEN ServedOpenly
       ELSE Unwrap(v_resp).status = 401

\* the server of main.rs returned a file to a request without a header
C5_Witness ==
    /\ v_variant = "main.rs"
    /\ IsSome(v_req)
    /\ Unwrap(v_req).method = "GET"
    /\ Unwrap(v_req).auth = None
    /\ Unwrap(v_req).path = <<"a.md">>
    /\ Unwrap(v_resp) = Response(200, Some(<<ChA>>))

\* the first put of the connection, among the events completed so far
FirstPut(i) ==
    /\ s_hist[i].type = "put"
    /\ \A j \in 1..(i - 1) : s_hist[j].type # "put"

\* C7: on every connection the first put event is dropped without an
\* engine call, whatever came before it, and every other put or patch is
\* passed to handle_sse_data; a single-entry patch makes one engine call
C7_FirstPutDropped ==
    \A i \in DOMAIN s_hist :
        s_hist[i].type \in {"put", "patch"} =>
            /\ s_hist[i].passed = ~FirstPut(i)
            /\ FirstPut(i) => s_hist[i].ncalls = 0
            /\ (s_hist[i].passed /\ s_hist[i].data = SingleEntryPatch)
                  => s_hist[i].ncalls = 1

\* after a reconnection: a put snapshot dropped, then a single-entry patch
\* that made one engine call
C7_Witness ==
    /\ s_conns >= 2
    /\ Len(s_hist) = 2
    /\ s_hist[1] = [type |-> "put", data |-> TwoEntryUpdate, passed |-> FALSE,
                    ncalls |-> 0]
    /\ s_hist[2] = [type |-> "patch", data |-> SingleEntryPatch, passed |-> TRUE,
                    ncalls |-> 1]
    /\ last.op = "handle_sse_data"

\* C8: for all texts old and new, apply_line_diff(old,
\* generate_line_diff(old, new)) returns new
C8_RoundTrip == d_pc = "applied" => d_applied = Some(d_new)

\* C11: at most one thread is inside an engine handler at any time, the
\* thread inside a handler holds the engine mutex, and the cache accesses of
\* one handler invocation are not interleaved with those of another
C11_OneHandler ==
    /\ Cardinality({t \in Threads : l_th[t].pc = "handler"}) <= 1
    /\ \A t \in Threads : l_th[t].pc = "handler" => l_mutex = Some(t)
    /\ \A i, j, k \in DOMAIN l_log :
         (i < j /\ j < k /\ l_log[i] = l_log[k]) => l_log[j] = l_log[i]

\* a handler is halfway while another thread waits in engine.lock(), after
\* a handler of a third thread has run
C11_Witness ==
    \E t, u \in Threads :
        /\ t # u
        /\ l_th[t].pc = "handler" /\ l_th[t].step = 1
        /\ l_th[u].pc = "lock"
        /\ \E i \in DOMAIN l_log : l_log[i][1] \notin {t, u}

\* C12: after a full_sync in which no call failed, every path whose last
\* upload by handle_local_change failed (and which the user has not edited
\* since) has the local content as its remote content
C12_DriftRepaired ==
    (last.op = "full_sync" /\ last.arg.clean) =>
        \A q \in r_failed :
            /\ q \in DOMAIN remote
            /\ MapGet(disk, Join(local_path, q)) = Some(remote[q].content)

\* the full_sync step with a listing: its listing and the outcomes of its
\* calls are in last'.arg
FullSyncStep == last'.op = "full_sync" /\ IsSome(last'.arg) /\ calls' = calls + 1
ListedItems == flatten_files(Unwrap(last'.arg).listing)
ListedSet == {ListedItems[i].path : i \in DOMAIN ListedItems}
ScannedSet == LET scanned == EngineScan(Cur) IN {scanned[i] : i \in DOMAIN scanned}
PutsOf(rs, q) == {i \in DOMAIN rs : rs[i].verb = "PUT" /\ rs[i].path = q}
GetsOf(rs, q) == {i \in DOMAIN rs : rs[i].verb = "GET" /\ rs[i].path = q}
\* the entries of the three maps and the file of path q are as before
SameAt(q) ==
    /\ MapGet(local_hashes', q) = MapGet(local_hashes, q)
    /\ MapGet(local_content_cache', q) = MapGet(local_content_cache, q)
    /\ MapGet(remote_modified', q) = MapGet(remote_modified, q)
FileSameAt(q) ==
    MapGet(disk', Resolve(Join(local_path, q))) = MapGet(disk, Resolve(Join(local_path, q)))

\* C13: full_sync issues one PUT, with the file's content, for each scanned
\* path that is not in the listing and can be read, and no other PUT; after
\* each successful one the two caches hold the hash and the content, and
\* the uploaded count is the number of successful PUTs
C13_Uploads ==
    [][FullSyncStep =>
        LET up == Unwrap(last'.arg).up
        IN /\ \A q \in ListedSet : PutsOf(reqs', q) = {}
           /\ \A i \in DOMAIN reqs' : reqs'[i].verb = "PUT" =>
                  reqs'[i].path \in ScannedSet \ ListedSet
           /\ \A q \in ScannedSet \ ListedSet :
                  LET file == Resolve(Join(local_path, q))
                  IN IF up[q].read
                     THEN /\ Cardinality(PutsOf(reqs', q)) = 1
                          /\ \A i \in PutsOf(reqs', q) : reqs'[i].content = disk[file]
                          /\ up[q].put =>
                               /\ MapGet(local_hashes', q) = Some(simple_hash(disk[file]))
                               /\ MapGet(local_content_cache', q) = Some(disk[file])
                     ELSE PutsOf(reqs', q) = {}
           /\ last'.ret[3] = Cardinality({q \in ScannedSet \ ListedSet :
                                            up[q].read /\ up[q].put})
    ]_vars

\* a full_sync has uploaded a new file, skipped a listed one
C13_Witness ==
    /\ last.op = "full_sync" /\ IsSome(last.arg)
    /\ last.ret[3] = 1
    /\ \E i \in DOMAIN reqs : reqs[i].verb = "PUT"
    /\ \E q \in InPaths :
         /\ \E i \in DOMAIN flatten_files(Unwrap(last.arg).listing) :
                flatten_files(Unwrap(last.arg).listing)[i].path = q
         /\ Resolve(Join(local_path, q)) \in DOMAIN disk
         /\ touch[Resolve(Join(local_path, q))] = "user"

UnderFolder(f) ==
    {k \in DOMAIN local_hashes :
        \E n \in 1..Len(PathChars(k)) :
            SubSeq(PathChars(k), 1, n) = PathChars(f) \o <<"/">>}

\* C14: handle_local_folder_delete for folder F issues one DELETE for each
\* key of local_hashes that starts with F's relative path and '/', and no
\* other request; such a key leaves both caches exactly when its DELETE
\* succeeded, and every other key keeps its entries in both caches
C14_FolderDelete ==
    [][(last'.op = "handle_local_folder_delete" /\ calls' = calls + 1) =>
        LET f == last'.arg.folder
            del == last'.arg.del
        IN /\ Len(reqs') = Cardinality(UnderFolder(f))
           /\ \A i \in DOMAIN reqs' :
                reqs'[i].verb = "DELETE" /\ reqs'[i].path \in UnderFolder(f)
           /\ \A k \in UnderFolder(f) :
                /\ \E i \in DOMAIN reqs' : reqs'[i].path = k
                /\ IF k \in del
                   THEN k \notin DOMAIN local_hashes'
                        /\ k \notin DOMAIN local_content_cache'
                   ELSE /\ MapGet(local_hashes', k) = MapGet(local_hashes, k)
                        /\ MapGet(local_content_cache', k) =
                               MapGet(local_content_cache, k)
           /\ \A k \in FolderCacheKeys \ UnderFolder(f) :
                /\ MapGet(local_hashes', k) = MapGet(local_hashes, k)
                /\ MapGet(local_content_cache', k) = MapGet(local_content_cache, k)
    ]_vars

\* folder d was deleted with two keys under it, one of its DELETEs failed,
\* and the key of the sibling folder d2 is still cached
C14_Witness ==
    /\ last.op = "handle_local_folder_delete"
    /\ last.arg.folder = <<"d">>
    /\ Len(reqs) = 2
    /\ Cardinality(last.arg.del) = 1
    /\ <<"d2", "b.md">> \in DOMAIN local_hashes
    /\ Cardinality(DOMAIN local_hashes \cap {<<"d", "b.md">>, <<"d", "d2", "b.md">>}) = 1

\* the reference: signed 32-bit wrap-around addition, and h * 31 + c by
\* repeated doubling
MaxI32 == 2147483647
MinI32 == -MaxI32 - 1
WrapAdd(a, b) ==
    IF a >= 0 /\ b >= 0
    THEN IF a <= MaxI32 - b THEN a + b
         ELSE ((a - MaxI32) - 1) + ((b - MaxI32) - 1)
    ELSE IF a < 0 /\ b < 0
    THEN IF a >= MinI32 - b THEN a + b
         ELSE ((a + MaxI32) + 1) + ((b + MaxI32) + 1)
    ELSE a + b
RefStep(h, c) ==
    LET h2 == WrapAdd(h, h)
        h4 == WrapAdd(h2, h2)
        h8 == WrapAdd(h4, h4)
        h16 == WrapAdd(h8, h8)
    IN WrapAdd(WrapAdd(WrapAdd(WrapAdd(WrapAdd(h16, h8), h4), h2), h), c)
RECURSIVE RefFold(_, _)
RefFold(h, s) == IF Len(s) = 0 THEN h ELSE RefFold(RefStep(h, s[1]), Tail(s))

\* the value a base-36 string denotes; a negative one is accumulated below
\* zero, so that -2^31 is in range
DigitValue(ch) == (CHOOSE i \in 1..36 : Digits36[i] = ch) - 1
IsDigit36(ch) == \E i \in 1..36 : Digits36[i] = ch
RECURSIVE DecodeUp(_, _)
DecodeUp(acc, str) ==
    IF Len(str) = 0 THEN acc
    ELSE DecodeUp(acc * 36 + DigitValue(str[1]), Tail(str))
RECURSIVE DecodeDown(_, _)
DecodeDown(acc, str) ==
    IF Len(str) = 0 THEN acc
    ELSE DecodeDown(acc * 36 - DigitValue(str[1]), Tail(str))

\* C15: simple_hash(s) is the fold h := h * 31 + c over the scalar values
\* of s from 0 in signed 32-bit wrap-around arithmetic, written in base 36:
\* "0" for zero, else digits without leading zero, after a '-' when the
\* value is negative
C15_ReferenceHash ==
    h_pc = "hashed" =>
        LET ref == RefFold(0, h_text)
            digits == IF ref < 0 THEN Tail(h_out) ELSE h_out
        IN /\ Len(h_out) > 0
           /\ (ref < 0) <=> (h_out[1] = "-")
           /\ Len(digits) > 0
           /\ \A i \in DOMAIN digits : IsDigit36(digits[i])
           /\ (digits[1] = "0") <=> (ref = 0 /\ h_out = <<"0">>)
           /\ ref = IF ref < 0 THEN DecodeDown(0, digits) ELSE DecodeUp(0, digits)

\* the text U+33258 U+33258 'a' U+6941, whose hash is -2^31, was hashed
C15_Witness ==
    /\ h_pc = "hashed"
    /\ RefFold(0, h_text) = MinI32
    /\ h_out = <<"-", "z", "i", "k", "0", "z", "k">>

\* some node of the tree, at any depth, has a name beginning with '.'
RECURSIVE HiddenInTree(_)
HiddenInTree(items) ==
    \E i \in DOMAIN items :
        \/ IsHidden(items[i].name)
        \/ IsSome(items[i].children) /\ HiddenInTree(Unwrap(items[i].children))
\* the request names a file or directory whose name begins with '.'
NamesHidden(req) ==
    \E text \in {req.path, req.old_path, req.new_path} :
        \E i \in DOMAIN text : IsHidden(text[i])

\* C16: the scan of the vault's directory contains no name beginning with
\* '.', and no request naming such a file or directory is served
C16_HiddenUntouched ==
    /\ ~HiddenInTree(scan_local_md_files(v_disk, local_path))
    /\ (IsSome(v_req) /\ NamesHidden(Unwrap(v_req))) =>
          /\ Unwrap(v_resp).status # 200
          /\ v_fsops = <<>>

\* the bytes of the file names, and the lexicographic order of byte strings
NameBytes(name) ==
    CASE name = ".h.md" -> <<46, 104, 46, 109, 100>>
      [] name = "a.md" -> <<97, 46, 109, 100>>
      [] name = "b.md" -> <<98, 46, 109, 100>>
      [] name = "d" -> <<100>>
      [] name = "e" -> <<101>>
      [] name = "x.md" -> <<120, 46, 109, 100>>
RECURSIVE LexLess(_, _)
LexLess(a, b) ==
    IF Len(b) = 0 THEN FALSE
    ELSE IF Len(a) = 0 THEN TRUE
    ELSE IF a[1] # b[1] THEN a[1] < b[1]
    ELSE LexLess(Tail(a), Tail(b))

\* at this level and below: folders first, names ascending within the
\* folders and within the files
RECURSIVE SortedTree(_)
SortedTree(items) ==
    /\ \A i, j \in DOMAIN items :
         i < j =>
            /\ ~(items[i].file_type = "file" /\ items[j].file_type = "folder")
            /\ items[i].file_type = items[j].file_type =>
                  LexLess(NameBytes(items[i].name), NameBytes(items[j].name))
    /\ \A i \in DOMAIN items :
         IsSome(items[i].children) => SortedTree(Unwrap(items[i].children))

\* C17: in the tree scan_local_md_files returns, at every level all folder
\* nodes precede all file nodes, and the folders and the files are each in
\* ascending lexicographic order of name
C17_SortedTree == SortedTree(scan_local_md_files(v_disk, local_path))

\* a listing was served whose root holds the folders d and e before the
\* files a.md and x.md, and whose folder d holds folder e before a.md and
\* b.md
C17_Witness ==
    LET tree == scan_local_md_files(v_disk, local_path)
    IN /\ IsSome(v_resp) /\ Unwrap(v_resp).status = 200
       /\ Len(tree) = 4
       /\ tree[1].name = "d" /\ tree[2].name = "e"
       /\ tree[3].name = "a.md" /\ tree[4].name = "x.md"
       /\ Len(Unwrap(tree[1].children)) = 3
       /\ Unwrap(tree[1].children)[1].file_type = "folder"

\* event j is the second put of the connection, event i the first
SecondPut(i, j) ==
    /\ i < j /\ FirstPut(i)
    /\ s_hist[j].type = "put"
    /\ \A k \in (i + 1)..(j - 1) : s_hist[k].type # "put"
PatchBetween(i, j) == \E k \in (i + 1)..(j - 1) : s_hist[k].type = "patch"

\* C18 as stated: the second put of a connection is passed to the engine
\* only if a patch event was received between the first put and it
C18_SecondPutNeedsPatch ==
    \A i, j \in DOMAIN s_hist :
        (SecondPut(i, j) /\ s_hist[j].passed) => PatchBetween(i, j)

\* C18 amended: of the first two puts of a connection the first is dropped
\* and the second is passed to the engine, whether or not a patch event
\* was received between them
C18_SecondPutPassed ==
    \A i, j \in DOMAIN s_hist :
        SecondPut(i, j) => (~s_hist[i].passed /\ s_hist[j].passed)

\* two puts with nothing between them: the first dropped, the second
\* handed to handle_sse_data
C18_Witness ==
    /\ Len(s_hist) = 2
    /\ SecondPut(1, 2)
    /\ ~PatchBetween(1, 2)
    /\ s_hist[2].passed
    /\ last.op = "handle_sse_data"

\* a step of handle_local_change with its call outcomes recorded
ChangeStep == calls' = calls + 1 /\ last'.op = "handle_local_change"

\* C21: every PUT of handle_local_change carries the file's full new
\* content; its oldHash is the entry the path had in local_hashes before the
\* call (none when it had none); it carries a diff exactly when the path had
\* such an entry and the serialized diff from the cached prior content to
\* the new content is at most 10240 bytes long, and the diff is that script.
C21_PutCarries ==
    [][ChangeStep =>
        \A i \in DOMAIN reqs' :
            reqs'[i].verb = "PUT" =>
                LET p == last'.arg.path
                    had == MapGet(local_hashes, p)
                    prior == MapGet(local_content_cache, p)
                    script == generate_line_diff(
                                  IF IsSome(prior) THEN Unwrap(prior) ELSE <<>>,
                                  reqs'[i].content)
                IN /\ reqs'[i].path = p
                   /\ Some(reqs'[i].content) = MapGet(disk, Join(local_path, p))
                   /\ reqs'[i].oldHash = had
                   /\ IsSome(reqs'[i].diff) <=>
                          (IsSome(had) /\ DiffStrLen(script) <= DiffLimit)
                   /\ IsSome(reqs'[i].diff) => reqs'[i].diff = Some(script)]_vars
\* a PUT with an oldHash and no diff, the script being one byte too long
C21_Witness ==
    /\ last.op = "handle_local_change"
    /\ \E i \in DOMAIN reqs :
          /\ reqs[i].verb = "PUT"
          /\ IsSome(reqs[i].oldHash)
          /\ reqs[i].diff = None
          /\ Len(reqs[i].content) = DiffLimit - 23

\* a step of handle_local_change for a path whose file no longer exists
ChangeOfMissing ==
    ChangeStep /\ Join(local_path, last'.arg.path) \notin DOMAIN disk
\* the DELETE requests of a handler call for path q
DeletesOf(rs, q) == {i \in DOMAIN rs : rs[i].verb = "DELETE" /\ rs[i].path = q}

\* C22: handle_local_change for a path whose file no longer exists issues
\* one remote delete for the path, and afterwards the path is absent from
\* local_hashes and from local_content_cache.
C22_DeletePurges ==
    [][ChangeOfMissing =>
        /\ Len(reqs') = 1 /\ DeletesOf(reqs', last'.arg.path) = {1}
        /\ last'.arg.path \notin DOMAIN local_hashes'
        /\ last'.arg.path \notin DOMAIN local_content_cache']_vars
\* C22 (amended): it issues exactly one remote delete for the path and no
\* other call; when the delete call is Ok the path is afterwards absent from
\* both caches, when it fails both caches are as they were; the disk and
\* remote_modified are unchanged.
C22_DeletePurgesOnSuccess ==
    [][ChangeOfMissing =>
        /\ Len(reqs') = 1 /\ DeletesOf(reqs', last'.arg.path) = {1}
        /\ fsops' = <<>> /\ disk' = disk /\ remote_modified' = remote_modified
        /\ IF last'.arg.o.del
           THEN /\ local_hashes' = MapRemove(local_hashes, last'.arg.path)
                /\ local_content_cache' =
                       MapRemove(local_content_cache, last'.arg.path)
           ELSE /\ local_hashes' = local_hashes
                /\ local_content_cache' = local_content_cache]_vars
\* the delete call failed and the path is still in both caches
C22_Witness ==
    /\ last.op = "handle_local_change"
    /\ ~last.arg.o.del
    /\ Join(local_path, last.arg.path) \notin DOMAIN disk
    /\ DeletesOf(reqs, last.arg.path) = {1}
    /\ last.arg.path \in DOMAIN local_hashes
    /\ last.arg.path \in DOMAIN local_content_cache

\* a step of handle_rtdb_event for an event with the given action
PushStep(action) ==
    /\ calls' = calls + 1
    /\ last'.op = "handle_rtdb_event"
    /\ last'.arg.entry.action = action
\* the file an event's path names
PushedFile(path) == Resolve(Join(local_path, path))
CachesUnchanged ==
    local_hashes' = local_hashes /\ local_content_cache' = local_content_cache

\* C23: handle_rtdb_event for a delete event whose local file exists removes
\* the file and removes the path from both caches; when the file does not
\* exist it changes neither the disk nor a cache entry; it never makes a
\* remote call.
C23_DeleteRemoves ==
    [][PushStep("delete") =>
        LET path == last'.arg.entry.path
        IN /\ reqs' = <<>>
           /\ IF PushedFile(path) \in DOMAIN disk
              THEN /\ disk' = MapRemove(disk, PushedFile(path))
                   /\ local_hashes' = MapRemove(local_hashes, path)
                   /\ local_content_cache' = MapRemove(local_content_cache, path)
              ELSE disk' = disk /\ CachesUnchanged]_vars
\* C23 (amended): when the local file exists and fs::remove_file succeeds
\* the file is gone and the path is removed from both caches; when the file
\* does not exist or cannot be removed the disk and the caches are as they
\* were; it never makes a remote call and never changes remote_modified.
C23_DeleteRemovesWhenRemoved ==
    [][PushStep("delete") =>
        LET path == last'.arg.entry.path
        IN /\ reqs' = <<>> /\ remote_modified' = remote_modified
           /\ IF PushedFile(path) \in DOMAIN disk /\ last'.arg.o.remove
              THEN /\ disk' = MapRemove(disk, PushedFile(path))
                   /\ local_hashes' = MapRemove(local_hashes, path)
                   /\ local_content_cache' = MapRemove(local_content_cache, path)
              ELSE disk' = disk /\ CachesUnchanged]_vars
\* a delete event whose file could not be removed: file and cache entries stay
C23_Witness ==
    /\ last.op = "handle_rtdb_event"
    /\ last.arg.entry.action = "delete"
    /\ ~last.arg.o.remove
    /\ PushedFile(last.arg.entry.path) \in DOMAIN disk
    /\ last.arg.entry.path \in DOMAIN local_hashes
    /\ last.arg.entry.path \in DOMAIN local_content_cache

\* C24: handle_rtdb_event for a rename event whose old_path file exists
\* moves it to path with no remote call (here: whenever fs::rename succeeds
\* and the two paths differ), after which old_path has no entry in either
\* cache and the entries of path in local_hashes and local_content_cache are
\* exactly the entries old_path had before; when the old_path file is
\* missing it issues exactly one GET for path and performs no move.
C24_RenameMovesEntries ==
    [][(PushStep("rename") /\ IsSome(last'.arg.entry.old_path)
          /\ last'.arg.entry.old_path # Some(last'.arg.entry.path)) =>
        LET path == last'.arg.entry.path
            old_path == Unwrap(last'.arg.entry.old_path)
        IN IF PushedFile(old_path) \in DOMAIN disk
           THEN last'.arg.o.rename =>
                  /\ reqs' = <<>>
                  /\ PushedFile(old_path) \notin DOMAIN disk'
                  /\ MapGet(disk', PushedFile(path)) = MapGet(disk, PushedFile(old_path))
                  /\ old_path \notin DOMAIN local_hashes'
                  /\ old_path \notin DOMAIN local_content_cache'
                  /\ MapGet(local_hashes', path) = MapGet(local_hashes, old_path)
                  /\ MapGet(local_content_cache', path) =
                         MapGet(local_content_cache, old_path)
           ELSE /\ reqs' = <<Req("GET", path)>>
                /\ \A i \in DOMAIN fsops' : fsops'[i].op # "rename"]_vars

\* the count of an op's arm, when the op has one: the first of eq and del
\* whose value is an unsigned integer
CountOf(op) ==
    IF IsSome(GetU64(op, "eq")) THEN Some(op.eq)
    ELSE IF IsSome(GetU64(op, "del")) THEN Some(op.del)
    ELSE None
\* the count v is more than `remaining` lines; 2^64 - k is more than any
Exceeds(v, remaining) == v.t = "posint" \/ v.v > remaining
\* an op without a count: it is an insertion of strings only
GoodIns(op) ==
    /\ "ins" \in DOMAIN op /\ op.ins.t = "arr"
    /\ \A i \in DOMAIN op.ins.v : op.ins.v[i].t = "str"
\* walking the script over `remaining` old lines, some count exceeds the
\* lines remaining where it stands
RECURSIVE CountExceeds(_, _)
CountExceeds(remaining, diff) ==
    IF Len(diff) = 0 THEN FALSE
    ELSE IF IsSome(CountOf(diff[1]))
    THEN \/ Exceeds(Unwrap(CountOf(diff[1])), remaining)
         \/ CountExceeds(remaining - Unwrap(CountOf(diff[1])).v, Tail(diff))
    ELSE CountExceeds(remaining, Tail(diff))
\* some op has no arm, or inserts something that is not a string
Malformed(diff) ==
    \E i \in DOMAIN diff : CountOf(diff[i]) = None /\ ~GoodIns(diff[i])
OldLineCount == Len(SplitNl(d_old))

\* C25: apply_line_diff returns None whenever an eq or del count exceeds
\* the old lines remaining at that point of the script, an op has none of
\* eq / del / ins with a usable value, or an ins entry is not a string.
C25_BadScriptIsNone ==
    (d_pc = "applied"
       /\ (CountExceeds(OldLineCount, d_script) \/ Malformed(d_script)))
    => d_applied = None

\* C26: apply_line_diff returns None, with no overflow, wrap-around or
\* panic, for every eq or del count up to 2^64 - 1 that exceeds the old
\* lines remaining.
C26_HugeCountIsNone ==
    (d_pc = "applied"
       /\ \E i \in DOMAIN d_script :
            /\ IsSome(CountOf(d_script[i]))
            /\ Unwrap(CountOf(d_script[i])).t = "posint"
            /\ ~Malformed(SubSeq(d_script, 1, i - 1))
            /\ ~CountExceeds(OldLineCount, SubSeq(d_script, 1, i - 1)))
    => d_applied = None

\* the kind of an emitted op: its one key
KindOf(op) == CHOOSE k \in DOMAIN op : TRUE
\* an emitted op carries something: a positive count or at least one line
NonEmptyOp(op) ==
    /\ Cardinality(DOMAIN op) = 1
    /\ KindOf(op) \in {"eq", "del", "ins"}
    /\ KindOf(op) \in {"eq", "del"} => op[KindOf(op)].t = "num" /\ op[KindOf(op)].v > 0
    /\ KindOf(op) = "ins" => op.ins.t = "arr" /\ Len(op.ins.v) > 0

\* C27: the script generate_line_diff emits has no two adjacent ops of the
\* same kind, no eq or del with count 0 and no ins with an empty list.
C27_CompactScript ==
    d_pc \in {"generated", "applied"} =>
        /\ \A i \in DOMAIN d_script : NonEmptyOp(d_script[i])
        /\ \A i \in 1..(Len(d_script) - 1) :
              KindOf(d_script[i]) # KindOf(d_script[i + 1])
\* a script of three ops: lines deleted and inserted between kept lines
C27_Witness ==
    /\ d_pc = "generated"
    /\ Len(d_script) = 3
    /\ KindOf(d_script[1]) = "eq"
    /\ KindOf(d_script[2]) = "del"
    /\ KindOf(d_script[3]) = "ins"

\* a step in which a completed put or patch event went to handle_sse_data
Dispatched ==
    /\ Len(s_hist') = Len(s_hist) + 1
    /\ s_hist'[Len(s_hist')].passed
    /\ last'.op = "handle_sse_data"
\* the fields of a payload that parses: its path string and its data
PayloadPath(data) ==
    IF HasField(data.val, "path") /\ Field(data.val, "path").t = "str"
    THEN Field(data.val, "path").v ELSE <<>>
HasData(data) == data.json /\ data.val.t = "obj" /\ HasField(data.val, "data")
\* the entries of a root update that decode, in the order of the object
RECURSIVE DecodableEntries(_)
DecodableEntries(pairs) ==
    IF Len(pairs) = 0 THEN <<>>
    ELSE (IF IsSome(DecodeEntry(pairs[1][2]))
          THEN <<Unwrap(DecodeEntry(pairs[1][2]))>> ELSE <<>>)
         \o DecodableEntries(Tail(pairs))
\* the key of "/key" with "_slash_" and "_dot_" replaced, as a path
KeyPath(path) ==
    ComponentsOf(<<>>, [i \in 1..(Len(path) - 1) |->
        CASE path[i + 1] = "_slash_" -> "/"
          [] path[i + 1] = "_dot_" -> "."
          [] OTHER -> path[i + 1]])

EngineSilent ==
    /\ CachesUnchanged /\ remote_modified' = remote_modified /\ disk' = disk
    /\ reqs' = <<>> /\ fsops' = <<>>
\* the subscriber is reading the same connection, ready for the next event
StillReading ==
    /\ s_pc' = "read" /\ s_conns' = s_conns
    /\ event_type' = "" /\ data_buf' = EmptyText
\* what a payload with data holds that can be decoded: the entries of a root
\* update, or the data of a key update
EntryValues(data) ==
    LET data_val == Field(data.val, "data")
    IN IF PayloadPath(data) = <<"/">>
       THEN IF data_val.t = "obj"
            THEN [i \in DOMAIN data_val.v |-> data_val.v[i][2]] ELSE <<>>
       ELSE <<data_val>>
\* a JSON value that is a push event: an object with the strings path and
\* action, whose other known fields are null or of their type
IsPushEvent(val) ==
    /\ val.t = "obj"
    /\ \A name \in {"path", "action"} :
          \E i \in DOMAIN val.v : val.v[i][1] = name /\ val.v[i][2].t = "str"
    /\ \A i \in DOMAIN val.v :
          /\ val.v[i][1] \in {"hash", "oldHash", "oldPath"}
                => val.v[i][2].t \in {"str", "null"}
          /\ val.v[i][1] = "diff" => val.v[i][2].t \in {"arr", "null"}
          /\ val.v[i][1] \in {"modified", "size"}
                => val.v[i][2].t \in {"num", "null"}
\* the values that lead to a call: push events, and the null of a key update
CountDecodable(vals, root) ==
    Cardinality({i \in DOMAIN vals :
                    IsPushEvent(vals[i]) \/ (~root /\ vals[i].t = "null")})

\* C29: a put or patch payload that is not valid JSON or has no data field
\* causes no engine call and no change of the engine's state or the disk;
\* an entry that cannot be decoded causes no call (the calls are as many as
\* the entries that decode, and nothing changes when none does); in every
\* case the subscriber goes on reading the same connection.
C29_BadPayloadDropped ==
    [][Dispatched =>
        /\ StillReading
        /\ IF ~HasData(data_buf)
           THEN last'.arg = <<>> /\ EngineSilent
           ELSE LET n == CountDecodable(EntryValues(data_buf),
                                        PayloadPath(data_buf) = <<"/">>)
                IN Len(last'.arg) = n /\ (n = 0 => EngineSilent)]_vars
\* a payload that is no JSON was dropped, and a later event of the same
\* connection reached the engine
C29_Witness ==
    \E i, j \in DOMAIN s_hist :
        /\ i < j
        /\ s_hist[i].passed /\ ~s_hist[i].data.json /\ s_hist[i].ncalls = 0
        /\ s_hist[j].passed /\ s_hist[j].ncalls > 0
        /\ s_pc = "read"

\* the thread is about to wait after a failure, resp. about to send
Waiting == s_pc = "sleep"
Attempting == s_pc = "connect"
\* after a read error, a stream end or a failed attempt the thread attempts
\* to connect again
RetriesAfterFailure == Waiting ~> Attempting

\* C30: after any read error, stream end or failed connection attempt the
\* subscriber thread makes another connection attempt after the wait, and
\* the thread never terminates.
C30_RetriesForever == [](s_pc # "dead") /\ RetriesAfterFailure

\* the initial full_sync of start_cloud_sync has returned
InitialSyncDone == l_th["startup"].pc = "returned"

\* C31: no handle_local_change, handle_local_folder_delete or
\* handle_rtdb_event call executes before the initial full_sync of
\* start_cloud_sync has completed.
C31_InitialSyncFirst ==
    \A t \in {"watcher", "rtdb"} :
        l_th[t].pc = "handler" => InitialSyncDone

\* C32: in every reachable state of the engine the key set of local_hashes
\* equals the key set of local_content_cache.
C32_SameKeys == DOMAIN local_hashes = DOMAIN local_content_cache
\* a push rename has moved the two entries of a cached file to a new path
C32_Witness ==
    /\ last.op = "handle_rtdb_event"
    /\ last.arg.entry.action = "rename"
    /\ \E i \in DOMAIN fsops : fsops[i].op = "rename"
    /\ last.arg.entry.old_path # Some(last.arg.entry.path)
    /\ Unwrap(last.arg.entry.old_path) \notin DOMAIN local_hashes
    /\ last.arg.entry.path \in DOMAIN local_hashes
    /\ MapGet(local_content_cache, last.arg.entry.path)
         = MapGet(disk, PushedFile(last.arg.entry.path))

\* C33: whenever handle_rtdb_event applies the diff of a save event (the
\* file is rewritten from the script, with no GET), the on-disk content the
\* diff is applied to has the fingerprint the event carries as old_hash,
\* also when the file was edited after the engine last cached it.
C33_DiffOnHashedContent ==
    [][(/\ PushStep("save")
        /\ reqs' = <<>>
        /\ \E i \in DOMAIN fsops' : fsops'[i].op = "write")
       => Some(simple_hash(disk[PushedFile(last'.arg.entry.path)]))
            = last'.arg.entry.old_hash]_vars

\* a step of full_sync, with or without a listing
AnyFullSyncStep == last'.op = "full_sync" /\ calls' = calls + 1
VerbCount(rs, verb) == Cardinality({i \in DOMAIN rs : rs[i].verb = verb})

\* C34: full_sync never deletes a local file and never issues a remote
\* delete: its requests are the listing, GETs, puts of local files and one
\* heartbeat, its filesystem changes are writes (with their parent
\* directories), no cache entry is removed, and a file present on one side
\* only is copied to the other side when its transfer succeeds.
C34_NoRemoval ==
    [][AnyFullSyncStep =>
        /\ DOMAIN disk \subseteq DOMAIN disk'
        /\ \A i \in DOMAIN fsops' : fsops'[i].op \in {"create_dir_all", "write"}
        /\ \A i \in DOMAIN reqs' :
              /\ reqs'[i].verb \in {"LIST", "GET", "PUT", "HEARTBEAT"}
              /\ reqs'[i].verb = "PUT" =>
                    MapGet(disk, Resolve(Join(local_path, reqs'[i].path)))
                       = Some(reqs'[i].content)
        /\ VerbCount(reqs', "LIST") = 1
        /\ VerbCount(reqs', "HEARTBEAT") = (IF IsSome(last'.arg) THEN 1 ELSE 0)
        /\ DOMAIN local_hashes \subseteq DOMAIN local_hashes'
        /\ DOMAIN local_content_cache \subseteq DOMAIN local_content_cache'
        /\ DOMAIN remote_modified \subseteq DOMAIN remote_modified'
        /\ IsSome(last'.arg) =>
              LET dl == Unwrap(last'.arg).dl
                  up == Unwrap(last'.arg).up
              IN /\ \A q \in ListedSet \ ScannedSet :
                        LET file == Resolve(Join(local_path, q))
                        IN (file \notin DOMAIN disk /\ IsSome(dl[q].get) /\ dl[q].write)
                             => MapGet(disk', file) = dl[q].get
                 /\ \A q \in ScannedSet \ ListedSet :
                        (up[q].read /\ up[q].put) =>
                            /\ PutsOf(reqs', q) # {}
                            /\ FileSameAt(q)
    ]_vars
\* one full_sync has downloaded a file the disk lacked and uploaded a file
\* the listing lacked; both are on the disk afterwards
C34_Witness ==
    /\ last.op = "full_sync" /\ IsSome(last.arg)
    /\ last.ret = <<"Ok", 1, 1>>
    /\ Cardinality(DOMAIN disk) = 2
    /\ \E i \in DOMAIN reqs : reqs[i].verb = "PUT"
    /\ \E i \in DOMAIN reqs : reqs[i].verb = "GET"

\* C35: when a full_sync in which every transfer succeeded is followed, with
\* no local change, remote change or push event between, by another
\* full_sync, the second one downloads 0 files and uploads 0 files.
C35_SecondSyncIdle ==
    [][(/\ last.op = "full_sync" /\ last.arg.clean
        /\ last'.op = "full_sync" /\ calls' = calls + 1)
       => (last'.ret[2] = 0 /\ last'.ret[3] = 0)]_vars

\* some component of the path begins with '.'
HiddenPath(path) == \E k \in DOMAIN path : IsHidden(path[k])
NoHiddenPut == \A i \in DOMAIN reqs : reqs[i].verb = "PUT" => ~HiddenPath(reqs[i].path)
\* full_sync alone puts no hidden file
FullSyncSkipsHidden == last.op = "full_sync" => NoHiddenPut

\* C36: no engine operation (full_sync upload or the watcher's
\* handle_local_change) issues a put for a Markdown file whose name, or the
\* name of one of its ancestor directories under local_path, begins with '.'.
C36_NoHiddenPut == last.op \in {"full_sync", "handle_local_change"} => NoHiddenPut

\* the subscriber thread has ended: get_sync_config returned Err
ConfigFailed == l_th["rtdb"].pc = "ended"

\* C37: when the sync-config request of start_cloud_sync fails, the request
\* is not made again and the push subscription is never started: the
\* subscriber thread stays ended and hands no event to the engine, while the
\* watcher and the full_sync timer go on.
C37_NoSubscriptionAfterFailure ==
    /\ [][ConfigFailed => l_th'["rtdb"].pc = "ended"]_vars
    /\ [][l_th'["rtdb"].pc = "config" => l_th["rtdb"].pc \in {"unborn", "config"}]_vars
    /\ [](ConfigFailed => \A i \in DOMAIN l_log : l_log[i][1] # "rtdb")
\* after the failure the timer's full_sync has run and the watcher is
\* inside a handler
C37_Witness ==
    /\ ConfigFailed
    /\ l_th["watcher"].pc = "handler"
    /\ \E i \in DOMAIN l_log : l_log[i][1] = "timer"

\* C38: when the listing request of full_sync fails, full_sync returns an
\* error having issued no GET, put or heartbeat (the listing request is its
\* only request), written no file and changed none of local_hashes,
\* local_content_cache and remote_modified.
C38_ListingFailure ==
    [][(AnyFullSyncStep /\ last'.arg = None) =>
        /\ last'.ret = <<"Err", 0, 0>>
        /\ \A i \in DOMAIN reqs' : reqs'[i].verb \notin {"GET", "PUT", "HEARTBEAT", "DELETE"}
        /\ Len(reqs') = 1
        /\ fsops' = <<>>
        /\ disk' = disk
        /\ UNCHANGED <<local_hashes, local_content_cache, remote_modified>>]_vars
\* a full_sync whose listing failed, on an engine that holds a file already
C38_Witness ==
    /\ last.op = "full_sync" /\ last.arg = None
    /\ last.ret[1] = "Err"
    /\ DOMAIN local_hashes # {}
    /\ DOMAIN disk # {}

\* the last engine call was a push delete or a push rename that was applied
\* (the file was removed, resp. moved)
PushApplied ==
    /\ last.op = "handle_rtdb_event"
    /\ last.arg.entry.action \in {"delete", "rename"}
    /\ \E i \in DOMAIN fsops : fsops[i].op \in {"remove_file", "rename"}
\* the paths the watcher reports for it: the removed or old path, the new path
AffectedPaths ==
    {last.arg.entry.path}
    \cup (IF last.arg.entry.action = "rename" /\ IsSome(last.arg.entry.old_path)
          THEN {Unwrap(last.arg.entry.old_path)} ELSE {})

\* C39: after the engine applies a push delete or a push rename, the
\* watcher's handle_local_change on the removed or old path and on the new
\* path issues no remote delete and no put.
C39_NoEchoOfRemoval ==
    [][(/\ PushApplied
        /\ last'.op = "handle_local_change" /\ calls' = calls + 1
        /\ last'.arg \in AffectedPaths)
       => \A i \in DOMAIN reqs' : reqs'[i].verb \notin {"DELETE", "PUT"}]_vars

\* C40: every handle_local_change call for an existing, readable file whose
\* content differs from local_content_cache[path], or whose path has no
\* cache entry, issues exactly one put for that path.
C40_EditIsPut ==
    [][(/\ ChangeStep
        /\ Join(local_path, last'.arg.path) \in DOMAIN disk
        /\ last'.arg.o.read
        /\ MapGet(local_content_cache, last'.arg.path)
             # MapGet(disk, Join(local_path, last'.arg.path)))
       => Cardinality(PutsOf(reqs', last'.arg.path)) = 1]_vars

====
